---------------------------- MODULE Spec2Model ----------------------------
(***************************************************************************)
(* A model of the trade-reconciliation and statistics core of tradezen:    *)
(* the currency normalizer (convertCurrency), the statistics engine        *)
(* (calculateStats), the CSV log parsers and the reconciler                *)
(* (mergeTradeData, parseBalanceHistoryTrades), and the trade form with    *)
(* the trade store (TradeModal, useTradeStore), the refresh of the rate    *)
(* table (fetchExchangeRates), the MT5 report parser (parseMT5Report) and  *)
(* the import screen (ImportCSV).                                          *)
(*                                                                         *)
(* Numbers.  A JavaScript number is modelled as an exact rational <<n, d>> *)
(* (d > 0, lowest terms).  The two operations of convertCurrency and the   *)
(* additions of the sums calculateStats takes in the order of its input    *)
(* list are rounded the way IEEE-754 rounds them (to nearest, ties to      *)
(* even), at a precision of MantissaBits significant bits instead of 53;   *)
(* the other operations are exact.  Prices,                                *)
(* units and timestamps of the import logs are integers (a price in its    *)
(* smallest quoted increment, a timestamp in seconds).                     *)
(*                                                                         *)
(* null / undefined is the empty tuple NULL; a present value v of an       *)
(* optional integer field is <<v>>.                                        *)
(***************************************************************************)
EXTENDS Integers, Sequences, FiniteSets, TLC

VARIABLES
    \* convertCurrency: the call's arguments and its results
    amount, fromCurrency, toCurrency, rates, convPc, converted, convertedBack,
    \* calculateStats: the process-wide rate table, the call's arguments, its result
    currentExchangeRates, statTrades, baseCurrency, statsPc, stats,
    \* fetchExchangeRates: the clock (hours), the local-storage cache item, the
    \* position of each invocation and the times of the requests sent so far
    now, storage, fetchPc, requests,
    \* the offset of the local clock from UTC, in seconds
    timeZone,
    \* import: the data lines of the two exports, the trades parsed from them
    \* and the positions the merge consumed
    journalLines, balanceLines, importPc, parsedTrades, consumed,
    \* parseMT5Report: the report, the position of the call and its outcome
    mt5Report, mt5Pc, mt5Result,
    \* import screen: the selected files (by name), the entries read from the
    \* two exports, the message shown, and the file read last with the number
    \* of files read so far
    balanceFile, journalFile, mt5File, balanceEntries, journalEntries, error,
    lastRead, reads,
    \* mergeTradeData step by step: the two sorted lists, the position states,
    \* the pass and the place in it, the trades pushed so far and the position
    \* matched to the balance event handled last
    scanOrders, scanBalance, positionStates, mergePc, cursor, mergeTrades,
    matchedPosition,
    \* import screen, reads in flight: the FileReaders that have not called
    \* onload yet, each with the entries its onload closure has captured
    pendingReads,
    \* journal: the store's trades and session, the next trade id, and the
    \* state of the trade form
    trades, session, nextId, isModalOpen, modalMode, selectedTrade, formData

convVars == <<amount, fromCurrency, toCurrency, rates, convPc, converted, convertedBack>>
statVars == <<currentExchangeRates, statTrades, baseCurrency, statsPc, stats>>
rateVars == <<now, storage, fetchPc, requests>>

envVars == <<timeZone>>
importVars == <<journalLines, balanceLines, importPc, parsedTrades, consumed>>
mt5Vars == <<mt5Report, mt5Pc, mt5Result>>
screenVars ==
    <<balanceFile, journalFile, mt5File, balanceEntries, journalEntries, error,
      lastRead, reads>>

mergeVars ==
    <<scanOrders, scanBalance, positionStates, mergePc, cursor, mergeTrades,
      matchedPosition>>

readVars == <<pendingReads>>

journalVars == <<trades, session, nextId, isModalOpen, modalMode, selectedTrade, formData>>

vars ==
    <<convVars, statVars, rateVars, envVars, importVars, mt5Vars, screenVars, mergeVars,
      readVars, journalVars>>

\* what the actions of one part leave unchanged
notConvVars ==
    <<statVars, rateVars, envVars, importVars, mt5Vars, screenVars, mergeVars, readVars,
      journalVars>>
notStatVars ==
    <<convVars, rateVars, envVars, importVars, mt5Vars, screenVars, mergeVars, readVars,
      journalVars>>
notImportVars ==
    <<convVars, statVars, rateVars, mt5Vars, screenVars, mergeVars, readVars, journalVars>>
notJournalVars ==
    <<convVars, statVars, rateVars, envVars, importVars, mt5Vars, screenVars, mergeVars,
      readVars>>
notRateVars ==
    <<convVars, statTrades, baseCurrency, statsPc, stats, envVars, importVars, mt5Vars,
      screenVars, mergeVars, readVars, journalVars>>
notMt5Vars ==
    <<convVars, statVars, rateVars, envVars, importVars, screenVars, mergeVars, readVars,
      journalVars>>
notScreenVars ==
    <<convVars, statVars, rateVars, journalLines, balanceLines, importPc, consumed,
      mt5Vars, mergeVars, readVars, journalVars>>

NULL == <<>>

-----------------------------------------------------------------------------
(* Bounds of the model *)

\* significant bits kept by a rounded operation (53 in the program)
MantissaBits == 8

\* invocations of fetchExchangeRates that can be in flight together
MaxCalls == 2
\* requests to the rate source that are recorded
MaxRequests == 3
\* the last hour of the clock
MaxClock == 24

-----------------------------------------------------------------------------
(* Exact rational arithmetic *)

Abs(x) == IF x < 0 THEN -x ELSE x

RECURSIVE Gcd(_, _)
Gcd(a, b) == IF b = 0 THEN a ELSE Gcd(b, a % b)

RECURSIVE Pow2(_)
Pow2(k) == IF k = 0 THEN 1 ELSE 2 * Pow2(k - 1)

\* the rational n/d in lowest terms with a positive denominator (d # 0)
Rat(n, d) ==
    LET g == Gcd(Abs(n), Abs(d))
        s == IF d < 0 THEN -1 ELSE 1
    IN  <<s * (n \div g), s * (d \div g)>>

RInt(n) == <<n, 1>>
RZero == <<0, 1>>
\* sums and products cancel common factors first, to keep the operands small
RAdd(p, q) ==
    LET g == Gcd(p[2], q[2])
    IN  Rat(p[1] * (q[2] \div g) + q[1] * (p[2] \div g), (p[2] \div g) * q[2])
RSub(p, q) == RAdd(p, <<-q[1], q[2]>>)
RMul(p, q) ==
    LET g1 == Gcd(Abs(p[1]), q[2])
        g2 == Gcd(Abs(q[1]), p[2])
    IN  Rat((p[1] \div g1) * (q[1] \div g2), (p[2] \div g2) * (q[2] \div g1))
RDiv(p, q) == RMul(p, IF q[1] < 0 THEN <<-q[2], -q[1]>> ELSE <<q[2], q[1]>>)
RNeg(p) == <<-p[1], p[2]>>
RAbs(p) == <<Abs(p[1]), p[2]>>
RLess(p, q) == p[1] * q[2] < q[1] * p[2]
RLeq(p, q) == p[1] * q[2] <= q[1] * p[2]
RIsZero(p) == p[1] = 0
RPos(p) == p[1] > 0
RNegative(p) == p[1] < 0

(* IEEE-754 rounding of a real to MantissaBits significant bits *)

\* scale a/d by a power of two into [2^(MantissaBits-1), 2^MantissaBits)
RECURSIVE FlScale(_, _, _)
FlScale(a, d, e) ==
    IF a \div d >= Pow2(MantissaBits)
    THEN IF a % 2 = 0 THEN FlScale(a \div 2, d, e + 1) ELSE FlScale(a, 2 * d, e + 1)
    ELSE IF a \div d < Pow2(MantissaBits - 1)
    THEN IF d % 2 = 0 THEN FlScale(a, d \div 2, e - 1) ELSE FlScale(2 * a, d, e - 1)
    ELSE <<a, d, e>>

\* a/d rounded to the nearest integer, ties to the even one
RoundHalfEven(a, d) ==
    LET q == a \div d
        r == a % d
    IN  IF 2 * r > d THEN q + 1
        ELSE IF 2 * r < d THEN q
        ELSE IF q % 2 = 0 THEN q ELSE q + 1

Fl(q) ==
    IF q[1] = 0 THEN q
    ELSE LET s == FlScale(Abs(q[1]), q[2], 0)
             m == RoundHalfEven(s[1], s[2])
             sgn == IF q[1] < 0 THEN -1 ELSE 1
         IN  IF s[3] >= 0 THEN Rat(sgn * m * Pow2(s[3]), 1)
             ELSE Rat(sgn * m, Pow2(-s[3]))

-----------------------------------------------------------------------------
(* Currency normalizer *)

\* the process-wide rate table as the module initialises it
DefaultExchangeRates ==
    [USD  |-> Fl(<<1, 1>>),
     EUR  |-> Fl(<<108, 100>>),
     GBP  |-> Fl(<<127, 100>>),
     JPY  |-> Fl(<<150, 1>>),
     CHF  |-> Fl(<<88, 100>>),
     CAD  |-> Fl(<<135, 100>>),
     AUD  |-> Fl(<<153, 100>>),
     NZD  |-> Fl(<<165, 100>>),
     USDC |-> Fl(<<1, 1>>),
     USDT |-> Fl(<<1, 1>>),
     BTC  |-> Fl(<<65000, 1>>),
     ETH  |-> Fl(<<3500, 1>>),
     USC  |-> Fl(<<1, 100>>)]

\* useState of TradeModal: the empty form
EmptyForm ==
    [direction |-> "long", entryPrice |-> NULL, exitPrice |-> NULL, units |-> NULL,
     exitTime |-> NULL, status |-> "open"]

\* the journal variables while another part of the program is looked at
JournalIdle ==
    /\ trades = <<>>
    /\ session = FALSE
    /\ nextId = 1
    /\ isModalOpen = FALSE
    /\ modalMode = "add"
    /\ selectedTrade = 0
    /\ formData = EmptyForm

\* the import variables while another part of the program is looked at
ImportIdle ==
    /\ journalLines = <<>>
    /\ balanceLines = <<>>
    /\ importPc = "idle"
    /\ parsedTrades = <<>>
    /\ consumed = <<>>

\* the statistics variables while another part of the program is looked at
StatIdle ==
    /\ currentExchangeRates = DefaultExchangeRates
    /\ statTrades = <<>>
    /\ baseCurrency = "USD"
    /\ statsPc = "idle"
    /\ stats = NULL

\* the invocations of fetchExchangeRates
Calls == 1 .. MaxCalls

\* localStorage without the item tradezen_exchange_rates
NoItem == [kind |-> "absent"]

\* the rate-fetch variables while another part of the program is looked at
RateIdle ==
    /\ now = 0
    /\ storage = NoItem
    /\ fetchPc = [i \in Calls |-> "idle"]
    /\ requests = <<>>

\* a report without a th cell and without rows
NoReport == [headers |-> <<>>, rows |-> <<>>]

\* the outcome of a call of parseMT5Report that has not been made
NoResult == [threw |-> FALSE, message |-> "", trades |-> <<>>]

\* the report-parser variables while another part of the program is looked at
Mt5Idle ==
    /\ mt5Report = NoReport
    /\ mt5Pc = "idle"
    /\ mt5Result = NoResult

\* no position matched (matchedPosition is null)
NoPosition == [kind |-> "absent"]

\* the variables of the stepwise merge while another part of the program is
\* looked at
MergeIdle ==
    /\ scanOrders = <<>>
    /\ scanBalance = <<>>
    /\ positionStates = <<>>
    /\ mergePc = "idle"
    /\ cursor = 0
    /\ mergeTrades = <<>>
    /\ matchedPosition = NoPosition

\* no read in flight
ReadIdle == pendingReads = {}

\* no file read yet
NoRead == [handler |-> "", name |-> ""]

\* useState of ImportCSV: no file, no entries, no message
ScreenIdle ==
    /\ balanceFile = ""
    /\ journalFile = ""
    /\ mt5File = ""
    /\ balanceEntries = <<>>
    /\ journalEntries = <<>>
    /\ error = ""
    /\ lastRead = NoRead
    /\ reads = 0

\* String.prototype.toUpperCase on the currency codes the model uses
ToUpperCase(code) ==
    CASE code = "usd" -> "USD"
      [] code = "eur" -> "EUR"
      [] code = "jpy" -> "JPY"
      [] OTHER -> code

\* rates[code] || 1 : an absent code and a rate of 0 both give 1
RateOrOne(table, code) ==
    IF code \in DOMAIN table /\ ~RIsZero(table[code]) THEN table[code] ELSE RInt(1)

\* the same function without its first line (a mutant)
convertCurrency_noShortCut(amt, from, to, table) ==
    IF RIsZero(amt) THEN RZero
    ELSE LET fromRate == RateOrOne(table, ToUpperCase(from))
             toRate == RateOrOne(table, ToUpperCase(to))
             amountInUSD == Fl(RDiv(amt, fromRate))
         IN  Fl(RMul(amountInUSD, toRate))

\* the same function multiplying by the source rate (a mutant)
convertCurrency_inverted(amt, from, to, table) ==
    IF from = to THEN amt
    ELSE IF RIsZero(amt) THEN RZero
    ELSE LET fromRate == RateOrOne(table, ToUpperCase(from))
             toRate == RateOrOne(table, ToUpperCase(to))
             amountInUSD == Fl(RMul(amt, fromRate))
         IN  Fl(RMul(amountInUSD, toRate))

convertCurrency(amt, from, to, table) ==
    IF from = to THEN amt
    ELSE IF RIsZero(amt) THEN RZero
    ELSE LET fromRate == RateOrOne(table, ToUpperCase(from))
             toRate == RateOrOne(table, ToUpperCase(to))
             amountInUSD == Fl(RDiv(amt, fromRate))
         IN  Fl(RMul(amountInUSD, toRate))

(* The inputs of the conversion checks *)

AmountInputs == {<<0, 1>>, <<1, 1>>, <<7, 1>>, <<100, 1>>, <<-50, 1>>, <<5, 2>>}

CurrencyInputs == {"USD", "EUR", "JPY", "USC", "XYZ", "eur"}

RateTableInputs ==
    { DefaultExchangeRates,
      [USD |-> Fl(<<1, 1>>), EUR |-> Fl(<<92, 100>>), JPY |-> Fl(<<14925, 100>>),
       USC |-> Fl(<<1, 100>>)],
      [USD |-> Fl(<<1, 1>>), EUR |-> <<0, 1>>, JPY |-> Fl(<<150, 1>>)] }

\* the conversion variables while another part of the program is looked at
ConvIdle ==
    /\ amount = RZero
    /\ fromCurrency = "USD"
    /\ toCurrency = "USD"
    /\ rates = DefaultExchangeRates
    /\ convPc = "idle"
    /\ converted = NULL
    /\ convertedBack = NULL

ConvInit ==
    /\ ReadIdle
    /\ MergeIdle
    /\ JournalIdle
    /\ timeZone = 0
    /\ StatIdle
    /\ RateIdle
    /\ ImportIdle
    /\ Mt5Idle
    /\ ScreenIdle
    /\ amount \in AmountInputs
    /\ fromCurrency \in CurrencyInputs
    /\ toCurrency \in CurrencyInputs
    /\ rates \in RateTableInputs
    /\ convPc = "call"
    /\ converted = NULL
    /\ convertedBack = NULL

\* convertCurrency(amount, fromCurrency, toCurrency, rates)
Convert ==
    /\ convPc = "call"
    /\ converted' = convertCurrency(amount, fromCurrency, toCurrency, rates)
    /\ convPc' = "converted"
    /\ UNCHANGED <<amount, fromCurrency, toCurrency, rates, convertedBack, notConvVars>>

\* convertCurrency(converted, toCurrency, fromCurrency, rates): the way back
ConvertBack ==
    /\ convPc = "converted"
    /\ convertedBack' = convertCurrency(converted, toCurrency, fromCurrency, rates)
    /\ convPc' = "back"
    /\ UNCHANGED <<amount, fromCurrency, toCurrency, rates, converted, notConvVars>>

ConvNext == Convert \/ ConvertBack

SpecConvert == ConvInit /\ [][ConvNext]_vars

(* C9: convertCurrency(amount, X, X, rates) returns amount unchanged, for every
   code X (in the rate table or not), every amount and every rate table. *)
C9_SameCurrencyIsIdentity ==
    (convPc # "call" /\ fromCurrency = toCurrency) => converted = amount

\* a non-zero amount converted from a code the table does not hold to itself
C9_Witness ==
    /\ convPc = "converted"
    /\ fromCurrency = toCurrency
    /\ fromCurrency \notin DOMAIN rates
    /\ ~RIsZero(amount)
    /\ converted = amount

\* |x - a| <= 2^(3 - MantissaBits) * |a| : four rounded operations apart
WithinTolerance(x, a) ==
    RLeq(RMul(RAbs(RSub(x, a)), RInt(Pow2(MantissaBits - 3))), RAbs(a))

(* C10: for two codes X and Y of the rate table, converting an amount from X
   to Y and the result back from Y to X gives the amount again, up to the
   rounding of the four operations. *)
C10_RoundTrip ==
    (convPc = "back" /\ fromCurrency \in DOMAIN rates /\ toCurrency \in DOMAIN rates)
        => WithinTolerance(convertedBack, amount)

\* a round trip between two different codes of the table that changed the
\* amount on the way and came back off by a rounding error
C10_Witness ==
    /\ convPc = "back"
    /\ fromCurrency \in DOMAIN rates
    /\ toCurrency \in DOMAIN rates
    /\ fromCurrency # toCurrency
    /\ converted # amount
    /\ convertedBack # amount
    /\ WithinTolerance(convertedBack, amount)

-----------------------------------------------------------------------------
(* Statistics engine *)

\* JavaScript's Infinity among the rationals
Infinity == <<1, 0>>

\* an optional integer field read the way `x || 0` reads it
OrZero(x) == IF x = NULL THEN 0 ELSE x[1]

\* JavaScript truthiness of an optional number: neither null nor 0
Truthy(x) == x # NULL /\ x[1] # 0

\* a sum whose additions are taken as exact: the sums over the sorted copy,
\* where the order of the additions is fixed, and the sums of whole numbers
RECURSIVE SumSeq(_)
SumSeq(s) == IF s = <<>> THEN RZero ELSE RAdd(s[1], SumSeq(Tail(s)))

\* list.reduce((sum, x) => sum + x, 0): the additions are made from the left,
\* in the order of the list, and each is rounded
RECURSIVE FlSum(_)
FlSum(s) ==
    IF s = <<>> THEN RZero
    ELSE Fl(RAdd(FlSum(SubSeq(s, 1, Len(s) - 1)), s[Len(s)]))

RECURSIVE MaxSeq(_)
MaxSeq(s) ==
    IF Len(s) = 1 THEN s[1]
    ELSE LET m == MaxSeq(Tail(s)) IN IF RLess(m, s[1]) THEN s[1] ELSE m

RECURSIVE MinSeq(_)
MinSeq(s) ==
    IF Len(s) = 1 THEN s[1]
    ELSE LET m == MinSeq(Tail(s)) IN IF RLess(s[1], m) THEN s[1] ELSE m

\* sign(x) * x^2 / v : the value x / sqrt(v), squared with its sign kept
SignedSquareOver(x, v) ==
    LET sq == RDiv(RMul(x, x), v) IN IF RNegative(x) THEN RNeg(sq) ELSE sq

\* Array.prototype.sort on <<key, element>> pairs with (a, b) => key(a) - key(b):
\* ascending and stable
RECURSIVE SortAscending(_)
SortAscending(pairs) ==
    IF pairs = <<>> THEN <<>>
    ELSE LET n == Len(pairs)
             rest == SortAscending(SubSeq(pairs, 1, n - 1))
             x == pairs[n]
             \* x goes after every element whose key is not greater
             keep == Cardinality({k \in 1..Len(rest) : rest[k][1] <= x[1]})
         IN  SubSeq(rest, 1, keep) \o <<x>> \o SubSeq(rest, keep + 1, Len(rest))

\* the filter dropping the trades that broke even as well (a mutant)
closedTradesOf_decided(tradeList) ==
    SelectSeq(tradeList,
        LAMBDA t : t.status = "closed" /\ t.pnl # NULL /\ ~RIsZero(t.pnl))

\* trades.filter(t => t.pnl !== null): the status test left out (a mutant)
closedTradesOf_anyStatus(tradeList) == SelectSeq(tradeList, LAMBDA t : t.pnl # NULL)

\* trades.filter(t => t.status === 'closed' && t.pnl !== null)
closedTradesOf(tradeList) ==
    SelectSeq(tradeList, LAMBDA t : t.status = "closed" /\ t.pnl # NULL)

\* t.pnl || 0
PnlOrZero(t) == IF t.pnl = NULL THEN RZero ELSE t.pnl

\* getPnl: the trade's P&L in the base currency
getPnl(t, base, table) ==
    convertCurrency(PnlOrZero(t), IF t.currency = "" THEN "USD" ELSE t.currency,
                    base, table)

\* the closed trades walked in the order of the list (a mutant)
sortedTradesOf_unsorted(closedTrades) == closedTrades

\* [...closedTrades].sort by new Date(t.exitTime || 0).getTime()
sortedTradesOf(closedTrades) ==
    LET pairs == [k \in 1..Len(closedTrades) |->
                    <<OrZero(closedTrades[k].exitTime), closedTrades[k]>>]
        sorted == SortAscending(pairs)
    IN  [k \in 1..Len(sorted) |-> sorted[k][2]]

\* the state of the loop over sortedTrades before its first iteration
WalkStart ==
    [maxConsecutiveWins |-> 0, maxConsecutiveLosses |-> 0,
     currentWins |-> 0, currentLosses |-> 0,
     maxDrawdown |-> RZero, maxDrawdownPercent |-> RZero,
     currentEquity |-> RZero, peakEquity |-> RZero]

\* the same iteration keeping the latest drawdown, not the largest (a mutant)
WalkStep_lastDrawdown(acc, pnl) ==
    LET won == RPos(pnl)
        currentWins == IF won THEN acc.currentWins + 1 ELSE 0
        currentLosses == IF won THEN 0 ELSE acc.currentLosses + 1
        currentEquity == RAdd(acc.currentEquity, pnl)
        peakEquity == IF RLess(acc.peakEquity, currentEquity)
                      THEN currentEquity ELSE acc.peakEquity
        drawdown == RSub(peakEquity, currentEquity)
        drawdownPercent == RMul(RDiv(drawdown, peakEquity), RInt(100))
    IN  [maxConsecutiveWins |->
            IF won /\ currentWins > acc.maxConsecutiveWins
            THEN currentWins ELSE acc.maxConsecutiveWins,
         maxConsecutiveLosses |->
            IF ~won /\ currentLosses > acc.maxConsecutiveLosses
            THEN currentLosses ELSE acc.maxConsecutiveLosses,
         currentWins |-> currentWins,
         currentLosses |-> currentLosses,
         maxDrawdown |-> drawdown,
         maxDrawdownPercent |->
            IF RPos(peakEquity) /\ RLess(acc.maxDrawdownPercent, drawdownPercent)
            THEN drawdownPercent ELSE acc.maxDrawdownPercent,
         currentEquity |-> currentEquity,
         peakEquity |-> peakEquity]

\* the same iteration without the reset of the other run counter (a mutant)
WalkStep_noReset(acc, pnl) ==
    LET won == RPos(pnl)
        currentWins == IF won THEN acc.currentWins + 1 ELSE acc.currentWins
        currentLosses == IF won THEN acc.currentLosses ELSE acc.currentLosses + 1
        currentEquity == RAdd(acc.currentEquity, pnl)
        peakEquity == IF RLess(acc.peakEquity, currentEquity)
                      THEN currentEquity ELSE acc.peakEquity
        drawdown == RSub(peakEquity, currentEquity)
        drawdownPercent == RMul(RDiv(drawdown, peakEquity), RInt(100))
    IN  [maxConsecutiveWins |->
            IF won /\ currentWins > acc.maxConsecutiveWins
            THEN currentWins ELSE acc.maxConsecutiveWins,
         maxConsecutiveLosses |->
            IF ~won /\ currentLosses > acc.maxConsecutiveLosses
            THEN currentLosses ELSE acc.maxConsecutiveLosses,
         currentWins |-> currentWins,
         currentLosses |-> currentLosses,
         maxDrawdown |->
            IF RLess(acc.maxDrawdown, drawdown) THEN drawdown ELSE acc.maxDrawdown,
         maxDrawdownPercent |->
            IF RPos(peakEquity) /\ RLess(acc.maxDrawdownPercent, drawdownPercent)
            THEN drawdownPercent ELSE acc.maxDrawdownPercent,
         currentEquity |-> currentEquity,
         peakEquity |-> peakEquity]

\* one iteration of the loop over sortedTrades: runs, equity curve, drawdown
WalkStep(acc, pnl) ==
    LET won == RPos(pnl)
        currentWins == IF won THEN acc.currentWins + 1 ELSE 0
        currentLosses == IF won THEN 0 ELSE acc.currentLosses + 1
        currentEquity == RAdd(acc.currentEquity, pnl)
        peakEquity == IF RLess(acc.peakEquity, currentEquity)
                      THEN currentEquity ELSE acc.peakEquity
        drawdown == RSub(peakEquity, currentEquity)
        drawdownPercent == RMul(RDiv(drawdown, peakEquity), RInt(100))
    IN  [maxConsecutiveWins |->
            IF won /\ currentWins > acc.maxConsecutiveWins
            THEN currentWins ELSE acc.maxConsecutiveWins,
         maxConsecutiveLosses |->
            IF ~won /\ currentLosses > acc.maxConsecutiveLosses
            THEN currentLosses ELSE acc.maxConsecutiveLosses,
         currentWins |-> currentWins,
         currentLosses |-> currentLosses,
         maxDrawdown |->
            IF RLess(acc.maxDrawdown, drawdown) THEN drawdown ELSE acc.maxDrawdown,
         maxDrawdownPercent |->
            IF RPos(peakEquity) /\ RLess(acc.maxDrawdownPercent, drawdownPercent)
            THEN drawdownPercent ELSE acc.maxDrawdownPercent,
         currentEquity |-> currentEquity,
         peakEquity |-> peakEquity]

RECURSIVE Walk(_, _)
Walk(acc, returns) ==
    IF returns = <<>> THEN acc ELSE Walk(WalkStep(acc, returns[1]), Tail(returns))

\* the sum of the risk-reward ratios of tradesWithRRR
RECURSIVE TotalRRR(_)
TotalRRR(ts) ==
    IF ts = <<>> THEN RZero
    ELSE LET t == ts[1]
             risk == Abs(t.entryPrice - t.stopLoss[1])
             reward == Abs(t.takeProfit[1] - t.entryPrice)
         IN  RAdd(IF risk > 0 THEN Rat(reward, risk) ELSE RZero, TotalRRR(Tail(ts)))

\* the durations (in seconds) the holding-time loop adds up
HoldingDurations(closedTrades) ==
    LET timed == SelectSeq(closedTrades,
                    LAMBDA t : /\ t.entryTime # NULL
                               /\ t.exitTime # NULL
                               /\ t.exitTime[1] - t.entryTime[1] > 0)
    IN  [k \in 1..Len(timed) |-> RInt(timed[k].exitTime[1] - timed[k].entryTime[1])]

\* the loss term without its weight (a mutant)
expectancyOf_unweightedLoss(winRate, averageWin, averageLoss) ==
    RSub(RMul(winRate, averageWin), averageLoss)

\* lines 47-48: lossRate = 1 - winRate and the expectancy
expectancyOf(winRate, averageWin, averageLoss) ==
    LET lossRate == RSub(RInt(1), winRate)
    IN  RSub(RMul(winRate, averageWin), RMul(lossRate, averageLoss))

\* Infinity whenever there are no losses (a mutant)
profitFactorOf_infiniteWithoutLosses(totalWins, totalLosses) ==
    IF RPos(totalLosses) THEN RDiv(totalWins, totalLosses) ELSE Infinity

\* line 156: totalLosses > 0 ? totalWins / totalLosses : totalWins > 0 ? Infinity : 0
profitFactorOf(totalWins, totalLosses) ==
    IF RPos(totalLosses) THEN RDiv(totalWins, totalLosses)
    ELSE IF RPos(totalWins) THEN Infinity ELSE RZero

calculateStats(tradeList, base, table) ==
    LET closedTrades == closedTradesOf(tradeList)
        n == Len(closedTrades)
        Pnl(t) == getPnl(t, base, table)
        winningTrades == SelectSeq(closedTrades, LAMBDA t : RPos(PnlOrZero(t)))
        losingTrades == SelectSeq(closedTrades, LAMBDA t : RNegative(PnlOrZero(t)))
        totalPnl == FlSum([k \in 1..n |-> Pnl(closedTrades[k])])
        winPnls == [k \in 1..Len(winningTrades) |-> Pnl(winningTrades[k])]
        lossPnls == [k \in 1..Len(losingTrades) |-> Pnl(losingTrades[k])]
        totalWins == FlSum(winPnls)
        totalLosses == RAbs(FlSum(lossPnls))
        winRate == Rat(Len(winningTrades), n)
        averageWin == IF Len(winningTrades) > 0
                      THEN RDiv(totalWins, RInt(Len(winningTrades))) ELSE RZero
        averageLoss == IF Len(losingTrades) > 0
                       THEN RDiv(totalLosses, RInt(Len(losingTrades))) ELSE RZero
        expectancy == expectancyOf(winRate, averageWin, averageLoss)
        durations == HoldingDurations(closedTrades)
        averageHoldingTime ==
            IF Len(durations) > 0
            THEN RDiv(RDiv(SumSeq(durations), RInt(Len(durations))), RInt(3600))
            ELSE RZero
        sortedTrades == sortedTradesOf(closedTrades)
        returns == [k \in 1..n |-> Pnl(sortedTrades[k])]
        meanReturn == RDiv(totalPnl, RInt(n))
        variance ==
            RDiv(SumSeq([k \in 1..n |->
                    RMul(RSub(returns[k], meanReturn), RSub(returns[k], meanReturn))]),
                 RInt(n))
        downsideReturns == SelectSeq(returns, RNegative)
        downsideVariance ==
            RDiv(SumSeq([k \in 1..Len(downsideReturns) |->
                    RMul(downsideReturns[k], downsideReturns[k])]),
                 RInt(IF Len(downsideReturns) = 0 THEN 1 ELSE Len(downsideReturns)))
        walk == Walk(WalkStart, returns)
        tradesWithRRR ==
            SelectSeq(closedTrades,
                LAMBDA t : Truthy(t.stopLoss) /\ Truthy(t.takeProfit) /\ t.entryPrice # 0)
        avgRRR == IF Len(tradesWithRRR) > 0
                  THEN RDiv(TotalRRR(tradesWithRRR), RInt(Len(tradesWithRRR))) ELSE RZero
    IN  IF n = 0
        THEN [totalTrades |-> Len(tradeList), winningTrades |-> 0, losingTrades |-> 0,
              winRate |-> RZero, totalPnl |-> RZero, averageWin |-> RZero,
              averageLoss |-> RZero, profitFactor |-> RZero, largestWin |-> RZero,
              largestLoss |-> RZero, averageRRR |-> RZero, consecutiveWins |-> 0,
              consecutiveLosses |-> 0, expectancy |-> RZero,
              averageHoldingTime |-> RZero, sharpeRatio |-> RZero,
              sortinoRatio |-> RZero, maxDrawdown |-> RZero,
              maxDrawdownPercent |-> RZero, sqn |-> RZero]
        ELSE [totalTrades |-> Len(tradeList),
              winningTrades |-> Len(winningTrades),
              losingTrades |-> Len(losingTrades),
              winRate |-> RMul(winRate, RInt(100)),
              totalPnl |-> totalPnl,
              averageWin |-> averageWin,
              averageLoss |-> averageLoss,
              profitFactor |-> profitFactorOf(totalWins, totalLosses),
              largestWin |-> IF Len(winningTrades) > 0 THEN MaxSeq(winPnls) ELSE RZero,
              largestLoss |-> IF Len(losingTrades) > 0 THEN MinSeq(lossPnls) ELSE RZero,
              averageRRR |-> avgRRR,
              consecutiveWins |-> walk.maxConsecutiveWins,
              consecutiveLosses |-> walk.maxConsecutiveLosses,
              expectancy |-> expectancy,
              averageHoldingTime |-> averageHoldingTime,
              \* the three ratios over a square root, as signed squares
              sharpeRatio |-> IF ~RIsZero(variance)
                              THEN SignedSquareOver(meanReturn, variance) ELSE RZero,
              sortinoRatio |-> IF ~RIsZero(downsideVariance)
                               THEN SignedSquareOver(meanReturn, downsideVariance)
                               ELSE RZero,
              maxDrawdown |-> walk.maxDrawdown,
              maxDrawdownPercent |-> walk.maxDrawdownPercent,
              sqn |-> IF ~RIsZero(variance)
                      THEN RMul(RInt(n), SignedSquareOver(meanReturn, variance))
                      ELSE RZero]

(* The inputs of the statistics checks *)

\* the longest trade list drawn from StatTradePool
MaxStatTrades == 3

StatTrade(status, pnl, currency, entryPrice, stopLoss, takeProfit, entryTime, exitTime) ==
    [status |-> status, pnl |-> pnl, currency |-> currency, entryPrice |-> entryPrice,
     stopLoss |-> stopLoss, takeProfit |-> takeProfit,
     entryTime |-> entryTime, exitTime |-> exitTime]

StatTradePool ==
    { StatTrade("closed", <<100, 1>>, "USD", 100, <<90>>, <<120>>, <<0>>, <<3600>>),
      StatTrade("closed", <<-50, 1>>, "USD", 100, NULL, NULL, <<3600>>, <<7200>>),
      StatTrade("closed", <<0, 1>>, "", 100, <<100>>, <<110>>, <<7200>>, <<7200>>),
      StatTrade("closed", <<7, 1>>, "EUR", 50, <<40>>, <<55>>, <<0>>, <<10800>>),
      StatTrade("closed", <<-300, 1>>, "JPY", 50, <<0>>, <<55>>, <<0>>, NULL),
      StatTrade("closed", NULL, "USD", 100, NULL, NULL, <<0>>, <<3600>>),
      StatTrade("open", NULL, "USD", 100, <<90>>, <<120>>, <<0>>, NULL),
      StatTrade("open", <<-50, 1>>, "EUR", 100, NULL, NULL, <<0>>, NULL),
      StatTrade("cancelled", <<100, 1>>, "USD", 100, <<90>>, <<120>>, <<0>>, <<3600>>) }

SeqsUpTo(S, n) == UNION {[1..k -> S] : k \in 0..n}

\* a closed USD trade of the given P&L leaving at the given hour
ScenarioTrade(pnl, hour) ==
    StatTrade("closed", <<pnl, 1>>, "USD", 100, NULL, NULL,
              <<3600 * (hour - 1)>>, <<3600 * hour>>)

\* two longer journals: six winners of +100 among four losers of -50, and a
\* single loser of -1000
ScenarioInputs ==
    { [k \in 1..10 |-> ScenarioTrade(IF k \in {3, 6, 8, 9} THEN -50 ELSE 100, k)],
      <<ScenarioTrade(-1000, 1)>> }

StatInit ==
    /\ ReadIdle
    /\ MergeIdle
    /\ JournalIdle
    /\ timeZone = 0
    /\ ConvIdle
    /\ RateIdle
    /\ ImportIdle
    /\ Mt5Idle
    /\ ScreenIdle
    /\ currentExchangeRates = DefaultExchangeRates
    /\ statTrades \in SeqsUpTo(StatTradePool, MaxStatTrades) \cup ScenarioInputs
    /\ baseCurrency \in {"USD", "EUR"}
    /\ statsPc = "call"
    /\ stats = NULL

\* calculateStats(trades, baseCurrency), reading the process-wide rate table
CalculateStats ==
    /\ statsPc = "call"
    /\ stats' = calculateStats(statTrades, baseCurrency, currentExchangeRates)
    /\ statsPc' = "done"
    /\ UNCHANGED <<currentExchangeRates, statTrades, baseCurrency, notStatVars>>

StatNext == CalculateStats

SpecStats == StatInit /\ [][StatNext]_vars

\* the fields of TradeStats other than totalTrades
RatioFields ==
    {"winningTrades", "losingTrades", "winRate", "totalPnl", "averageWin",
     "averageLoss", "profitFactor", "largestWin", "largestLoss", "averageRRR",
     "consecutiveWins", "consecutiveLosses", "expectancy", "averageHoldingTime",
     "sharpeRatio", "sortinoRatio", "maxDrawdown", "maxDrawdownPercent", "sqn"}

\* a trade list restricted to its closed trades with a P&L
ClosedWithPnl(tradeList) ==
    SelectSeq(tradeList, LAMBDA t : t.status = "closed" /\ t.pnl # NULL)

(* C1: calculateStats of a trade list and calculateStats of the list restricted
   to its closed trades with a non-null pnl agree on every field but
   totalTrades, and totalTrades is the length of the whole list. *)
C1_OnlyClosedTradesCount ==
    statsPc = "done" =>
        LET restricted == calculateStats(ClosedWithPnl(statTrades), baseCurrency,
                                         currentExchangeRates)
        IN  /\ \A f \in RatioFields : stats[f] = restricted[f]
            /\ stats.totalTrades = Len(statTrades)

\* statistics of a list that holds a winning closed trade beside a cancelled
\* trade with a P&L and an open trade: one trade counted out of three
C1_Witness ==
    /\ statsPc = "done"
    /\ Len(statTrades) = 3
    /\ \E i, j, k \in 1..3 :
        /\ statTrades[i].status = "cancelled" /\ statTrades[i].pnl # NULL
        /\ statTrades[j].status = "open"
        /\ statTrades[k].status = "closed" /\ statTrades[k].pnl # NULL
    /\ stats.totalTrades = 3
    /\ stats.winningTrades + stats.losingTrades = 1


-----------------------------------------------------------------------------
(* Broker export files and their parsers.

   A data line is described by the patterns of the parser it matches and by
   the values those patterns capture.  Timestamps are seconds on the clock
   the export was written in; prices, units and amounts are integers. *)

\* a data line of the order log
OrderLine(kind, time, symbol, side, units, price, stopLoss, takeProfit) ==
    [kind |-> kind, time |-> time, symbol |-> symbol, side |-> side, units |-> units,
     price |-> price, stopLoss |-> stopLoss, takeProfit |-> takeProfit]

\* a data line of the balance history
BalanceLine(kind, time, pnl, direction, exchange, symbol, exitPrice, units, entryPrice) ==
    [kind |-> kind, time |-> time, balanceBefore |-> 10000, balanceAfter |-> 10000 + pnl,
     pnl |-> pnl, currency |-> "USD", direction |-> direction, exchange |-> exchange,
     symbol |-> symbol, exitPrice |-> exitPrice, units |-> units, entryPrice |-> entryPrice]

\* the OrderLogEntry built from one line that matches `timestamp,text`
parseOrderLine(l) ==
    [time |-> l.time,
     \* /symbol ([A-Z]+:[A-Z]+)/, overwritten by the symbol of a call or a modify
     symbol |-> l.symbol,
     action |-> CASE l.kind = "execute" -> "execute"
                  [] l.kind \in {"entry", "call"} -> l.side
                  [] l.kind = "limit" -> "limit"
                  [] l.kind = "modify" -> "modify"
                  [] OTHER -> "",
     price |-> IF l.kind \in {"execute", "limit"} THEN <<l.price>> ELSE NULL,
     units |-> IF l.kind \in {"execute", "entry", "call", "limit"} THEN <<l.units>> ELSE NULL,
     stopLoss |-> IF l.kind \in {"entry", "limit", "modify"} THEN <<l.stopLoss>> ELSE NULL,
     takeProfit |-> IF l.kind \in {"entry", "limit", "modify"} THEN <<l.takeProfit>> ELSE NULL,
     isEntry |-> l.kind \in {"entry", "limit"}]

\* parseOrderLogsCSV: one entry per line of the shape `timestamp,text`, in file order
parseOrderLogsCSV(lines) ==
    LET kept == SelectSeq(lines, LAMBDA l : l.kind # "broken")
    IN  [k \in 1..Len(kept) |-> parseOrderLine(kept[k])]

\* the BalanceHistoryEntry built from one line that matches the six-field shape
parseBalanceLine(l) ==
    LET close == l.kind = "close"
    IN  [time |-> l.time, balanceBefore |-> l.balanceBefore,
         balanceAfter |-> l.balanceAfter, pnl |-> l.pnl, currency |-> l.currency,
         direction |-> IF close THEN l.direction ELSE "",
         exchange |-> IF close THEN l.exchange ELSE "",
         symbol |-> IF close THEN l.symbol ELSE "",
         exitPrice |-> IF close THEN <<l.exitPrice>> ELSE NULL,
         units |-> IF close THEN <<l.units>> ELSE NULL,
         entryPrice |-> IF close THEN <<l.entryPrice>> ELSE NULL]

\* parseBalanceHistoryCSV: one entry per line of the six-field shape, in file order
parseBalanceHistoryCSV(lines) ==
    LET kept == SelectSeq(lines, LAMBDA l : l.kind # "broken")
    IN  [k \in 1..Len(kept) |-> parseBalanceLine(kept[k])]

-----------------------------------------------------------------------------
(* Trade reconciler *)

\* new Date(time).getTime() in seconds: a `YYYY-MM-DD HH:MM:SS` string is read
\* on the local clock, zone seconds ahead of UTC
getTime(time, zone) == time - zone

\* the instant of the ISO string time.replace(' ', 'T') + 'Z'
Zulu(time) == <<time>>

\* [...entries].sort((a, b) => new Date(a.time) - new Date(b.time))
sortByTime(entries, zone) ==
    LET pairs == [k \in 1..Len(entries) |-> <<getTime(entries[k].time, zone), entries[k]>>]
        sorted == SortAscending(pairs)
    IN  [k \in 1..Len(sorted) |-> sorted[k][2]]

\* the search for the execution without its window of 5 s (a mutant)
executionPrice_anyTime(sortedOrders, order, zone) ==
    LET hits == SelectSeq(sortedOrders,
                    LAMBDA o : /\ o.action = "execute"
                               /\ o.symbol = order.symbol
                               /\ o.units = order.units)
    IN  IF hits = <<>> THEN 0 ELSE OrZero(hits[1].price)

\* the price of sortedOrders.find(execute, same symbol, same units, within 5 s), or 0
executionPrice(sortedOrders, order, zone) ==
    LET hits == SelectSeq(sortedOrders,
                    LAMBDA o : /\ o.action = "execute"
                               /\ o.symbol = order.symbol
                               /\ o.units = order.units
                               /\ Abs(getTime(o.time, zone) - getTime(order.time, zone)) < 5)
    IN  IF hits = <<>> THEN 0 ELSE OrZero(hits[1].price)

\* the index of the first position of a symbol, 0 when it has none (a mutant)
lastPositionOf_first(positions, symbol) ==
    LET at == {i \in 1..Len(positions) : positions[i].symbol = symbol}
    IN  IF at = {} THEN 0 ELSE CHOOSE i \in at : \A j \in at : i <= j

\* the index of the last position of a symbol, 0 when it has none
lastPositionOf(positions, symbol) ==
    LET at == {i \in 1..Len(positions) : positions[i].symbol = symbol}
    IN  IF at = {} THEN 0 ELSE CHOOSE i \in at : \A j \in at : j <= i

\* one iteration of the first pass: sortedOrders[k] opens or modifies a position.
\* positionHistory is kept as one list; the list of a symbol is its sublist.
firstPassStep(positions, sortedOrders, k, zone) ==
    LET order == sortedOrders[k]
        opened ==
            IF /\ order.action \in {"buy", "sell"}
               /\ order.isEntry
               /\ Truthy(order.stopLoss)
               /\ Truthy(order.takeProfit)
            THEN Append(positions,
                    [id |-> k,
                     symbol |-> order.symbol,
                     entryTime |-> order.time,
                     entryPrice |-> executionPrice(sortedOrders, order, zone),
                     units |-> OrZero(order.units),
                     direction |-> IF order.action = "buy" THEN "long" ELSE "short",
                     stopLoss |-> order.stopLoss,
                     takeProfit |-> order.takeProfit,
                     slTpHistory |-> << [time |-> order.time,
                                         stopLoss |-> order.stopLoss,
                                         takeProfit |-> order.takeProfit] >>])
            ELSE positions
        last == lastPositionOf(opened, order.symbol)
    IN  IF order.symbol = "" THEN positions
        ELSE IF order.action = "modify" /\ Truthy(order.stopLoss)
                /\ Truthy(order.takeProfit) /\ last > 0
        THEN [opened EXCEPT
                ![last].stopLoss = order.stopLoss,
                ![last].takeProfit = order.takeProfit,
                ![last].slTpHistory = Append(@, [time |-> order.time,
                                                 stopLoss |-> order.stopLoss,
                                                 takeProfit |-> order.takeProfit])]
        ELSE opened

\* the first pass: positionHistory after the orders k, k+1, ...
RECURSIVE firstPass(_, _, _, _)
firstPass(positions, sortedOrders, k, zone) ==
    IF k > Len(sortedOrders) THEN positions
    ELSE firstPass(firstPassStep(positions, sortedOrders, k, zone), sortedOrders, k + 1, zone)

\* `${balance.exchange}:${balance.symbol}`
fullSymbolOf(balance) == balance.exchange \o ":" \o balance.symbol

\* Math.abs(price - reported) / reported < 0.001, for reported > 0
priceClose(price, reported) == Abs(price - reported) * 1000 < reported

\* the matching loop without its same-units fallback (a mutant)
RECURSIVE matchPosition_priceOnly(_, _, _, _, _)
matchPosition_priceOnly(positions, i, balance, current, zone) ==
    IF i > Len(positions) THEN current
    ELSE LET pos == positions[i]
             balanceEntryPrice == OrZero(balance.entryPrice)
             skip == matchPosition_priceOnly(positions, i + 1, balance, current, zone)
         IN  IF pos.symbol # fullSymbolOf(balance) THEN skip
             ELSE IF pos.direction # balance.direction THEN skip
             ELSE IF getTime(pos.entryTime, zone) >= getTime(balance.time, zone) THEN skip
             ELSE IF balanceEntryPrice = 0 THEN skip
             ELSE IF priceClose(pos.entryPrice, balanceEntryPrice) THEN i
             ELSE skip

\* the matching loop taking the first candidate that passes either test (a mutant)
RECURSIVE matchPosition_firstFit(_, _, _, _, _)
matchPosition_firstFit(positions, i, balance, current, zone) ==
    IF i > Len(positions) THEN current
    ELSE LET pos == positions[i]
             balanceEntryPrice == OrZero(balance.entryPrice)
             skip == matchPosition_firstFit(positions, i + 1, balance, current, zone)
         IN  IF pos.symbol # fullSymbolOf(balance) THEN skip
             ELSE IF pos.direction # balance.direction THEN skip
             ELSE IF getTime(pos.entryTime, zone) >= getTime(balance.time, zone) THEN skip
             ELSE IF balanceEntryPrice = 0 THEN skip
             ELSE IF priceClose(pos.entryPrice, balanceEntryPrice) THEN i
             ELSE IF Abs(pos.units - OrZero(balance.units)) < 1 THEN i
             ELSE skip

\* the matching loop without the test of the entry time (a mutant)
RECURSIVE matchPosition_anyTime(_, _, _, _, _)
matchPosition_anyTime(positions, i, balance, current, zone) ==
    IF i > Len(positions) THEN current
    ELSE LET pos == positions[i]
             balanceEntryPrice == OrZero(balance.entryPrice)
             skip == matchPosition_anyTime(positions, i + 1, balance, current, zone)
         IN  IF pos.symbol # fullSymbolOf(balance) THEN skip
             ELSE IF pos.direction # balance.direction THEN skip
             ELSE IF balanceEntryPrice = 0 THEN skip
             ELSE IF priceClose(pos.entryPrice, balanceEntryPrice) THEN i
             ELSE IF Abs(pos.units - OrZero(balance.units)) < 1
             THEN matchPosition_anyTime(positions, i + 1, balance, i, zone)
             ELSE skip

\* the loop over the positions of the balance event's symbol, from index i on:
\* the index of matchedPosition (0 for null), current being the match so far
RECURSIVE matchPosition(_, _, _, _, _)
matchPosition(positions, i, balance, current, zone) ==
    IF i > Len(positions) THEN current
    ELSE LET pos == positions[i]
             balanceEntryPrice == OrZero(balance.entryPrice)
             skip == matchPosition(positions, i + 1, balance, current, zone)
         IN  IF pos.symbol # fullSymbolOf(balance) THEN skip
             ELSE IF pos.direction # balance.direction THEN skip
             ELSE IF getTime(pos.entryTime, zone) >= getTime(balance.time, zone) THEN skip
             ELSE IF balanceEntryPrice = 0 THEN skip
             ELSE IF priceClose(pos.entryPrice, balanceEntryPrice) THEN i
             ELSE IF Abs(pos.units - OrZero(balance.units)) < 1
             THEN matchPosition(positions, i + 1, balance, i, zone)
             ELSE skip

\* the matched branch taking the position's current values (a mutant)
fromPosition_current(pos, balance, zone) ==
    [entryTime |-> Zulu(pos.entryTime),
     stopLoss |-> pos.stopLoss,
     takeProfit |-> pos.takeProfit]

\* the matched branch: entry time and the last stop-loss/take-profit set by the exit
fromPosition(pos, balance, zone) ==
    LET relevantHistory ==
            SelectSeq(pos.slTpHistory,
                LAMBDA h : getTime(h.time, zone) <= getTime(balance.time, zone))
        lastSlTp == relevantHistory[Len(relevantHistory)]
    IN  [entryTime |-> Zulu(pos.entryTime),
         stopLoss |-> IF relevantHistory # <<>> THEN lastSlTp.stopLoss ELSE pos.stopLoss,
         takeProfit |-> IF relevantHistory # <<>> THEN lastSlTp.takeProfit
                        ELSE pos.takeProfit]

\* x || y on optional numbers
OrElse(x, y) == IF Truthy(x) THEN x ELSE y

\* the unmatched branch: an execution at the reported entry price, the orders
\* around it and the later modifications, else two hours before the exit
fromOrders(sortedOrders, balance, zone) ==
    LET fullSymbol == fullSymbolOf(balance)
        exitTime == getTime(balance.time, zone)
        balanceEntryPriceCheck == OrZero(balance.entryPrice)
        entryOrders ==
            SelectSeq(sortedOrders,
                LAMBDA o : /\ o.symbol = fullSymbol
                           /\ o.action = "execute"
                           /\ o.price # NULL
                           /\ balanceEntryPriceCheck > 0
                           /\ priceClose(o.price[1], balanceEntryPriceCheck)
                           /\ getTime(o.time, zone) < exitTime)
        entryOrder == entryOrders[1]
        nearbyOrders ==
            SelectSeq(sortedOrders,
                LAMBDA o : /\ o.symbol = fullSymbol
                           /\ Abs(getTime(o.time, zone) - getTime(entryOrder.time, zone)) < 10
                           /\ Truthy(o.stopLoss)
                           /\ Truthy(o.takeProfit))
        modifications ==
            SelectSeq(sortedOrders,
                LAMBDA o : /\ o.symbol = fullSymbol
                           /\ o.action = "modify"
                           /\ getTime(o.time, zone) > getTime(entryOrder.time, zone)
                           /\ getTime(o.time, zone) <= exitTime)
        lastMod == modifications[Len(modifications)]
        nearSl == IF nearbyOrders # <<>> THEN OrElse(nearbyOrders[1].stopLoss, NULL) ELSE NULL
        nearTp == IF nearbyOrders # <<>> THEN OrElse(nearbyOrders[1].takeProfit, NULL)
                  ELSE NULL
    IN  IF entryOrders # <<>>
        THEN [entryTime |-> Zulu(entryOrder.time),
              stopLoss |-> IF modifications # <<>> THEN OrElse(lastMod.stopLoss, nearSl)
                           ELSE nearSl,
              takeProfit |-> IF modifications # <<>> THEN OrElse(lastMod.takeProfit, nearTp)
                             ELSE nearTp]
        ELSE \* new Date(exitTime - 2 h).toISOString() without its T, then given a Z
             [entryTime |-> <<exitTime - 7200>>, stopLoss |-> NULL, takeProfit |-> NULL]

\* the codes a symbol of the model includes (String.prototype.includes)
Includes(symbol, code) ==
    code \in (CASE symbol = "EURUSD" -> {"EUR", "USD"}
                [] symbol = "XAUUSD" -> {"XAU", "USD"}
                [] symbol = "BTCUSD" -> {"BTC", "USD"}
                [] OTHER -> {})

IncludesAny(symbol, codes) == \E c \in codes : Includes(symbol, c)

\* (pnl / (entryPrice * (units || 1))) * 100, or 0
pnlPercentOf(balance) ==
    LET entryPrice == OrZero(balance.entryPrice)
        units == IF OrZero(balance.units) = 0 THEN 1 ELSE OrZero(balance.units)
    IN  IF entryPrice > 0 THEN Rat(balance.pnl * 100, entryPrice * units) ELSE RZero

\* the tags mergeTradeData gives a trade
mergeTags(balance) ==
    (IF balance.exchange # "" THEN <<balance.exchange>> ELSE <<>>)
    \o (IF Abs(balance.pnl) > 5000 THEN <<"Big Trade">> ELSE <<>>)
    \o (IF Abs(balance.pnl) > 1000 THEN <<"Good Trade">> ELSE <<>>)
    \o (IF IncludesAny(balance.symbol, {"XAU", "XAG"}) THEN <<"Metals">> ELSE <<>>)
    \o (IF IncludesAny(balance.symbol, {"BTC", "ETH", "SOL", "XRP", "ADA"})
        THEN <<"Crypto">> ELSE <<>>)
    \o (IF /\ IncludesAny(balance.symbol,
                  {"JPY", "USD", "EUR", "GBP", "CAD", "AUD", "CHF", "NZD"})
           /\ ~IncludesAny(balance.symbol, {"XAU", "XAG"})
        THEN <<"Forex">> ELSE <<>>)

\* the trade pushed for a balance event
closedTrade(balance, entryTime, stopLoss, takeProfit, tags) ==
    [symbol |-> balance.symbol,
     direction |-> balance.direction,
     entryPrice |-> OrZero(balance.entryPrice),
     exitPrice |-> balance.exitPrice,
     units |-> OrZero(balance.units),
     entryTime |-> entryTime,
     exitTime |-> Zulu(balance.time),
     stopLoss |-> stopLoss,
     takeProfit |-> takeProfit,
     pnl |-> RInt(balance.pnl),
     pnlPercent |-> pnlPercentOf(balance),
     status |-> "closed",
     notes |-> <<balance.balanceBefore, balance.balanceAfter>>,
     tags |-> tags]

\* positions.splice(idx, 1) left out (a mutant)
splice_kept(positions, idx) == positions

\* positions.splice(idx, 1)
splice(positions, idx) ==
    SubSeq(positions, 1, idx - 1) \o SubSeq(positions, idx + 1, Len(positions))

\* one iteration of the second pass.  run.consumed lists the ids of the
\* positions matched so far (kept for the proofs, the program has no such list).
secondPassStep(run, sortedOrders, balance, zone) ==
    LET m == matchPosition(run.positions, 1, balance, 0, zone)
        found == IF m > 0 THEN fromPosition(run.positions[m], balance, zone)
                 ELSE fromOrders(sortedOrders, balance, zone)
    IN  IF \/ balance.symbol = ""
           \/ balance.direction = ""
           \/ balance.entryPrice = NULL
           \/ balance.exitPrice = NULL
        THEN run
        ELSE [positions |-> IF m > 0 THEN splice(run.positions, m) ELSE run.positions,
              trades |-> Append(run.trades,
                            closedTrade(balance, found.entryTime, found.stopLoss,
                                        found.takeProfit, mergeTags(balance))),
              consumed |-> IF m > 0 THEN Append(run.consumed, run.positions[m].id)
                           ELSE run.consumed]

RECURSIVE secondPass(_, _, _, _, _)
secondPass(run, sortedOrders, sortedBalance, k, zone) ==
    IF k > Len(sortedBalance) THEN run
    ELSE secondPass(secondPassStep(run, sortedOrders, sortedBalance[k], zone),
                    sortedOrders, sortedBalance, k + 1, zone)

\* the final sort left out (a mutant)
sortByExitDesc_unsorted(tradeList) == tradeList

\* trades.sort((a, b) => new Date(b.exitTime || 0) - new Date(a.exitTime || 0))
sortByExitDesc(tradeList) ==
    LET pairs == [k \in 1..Len(tradeList) |->
                    <<0 - OrZero(tradeList[k].exitTime), tradeList[k]>>]
        sorted == SortAscending(pairs)
    IN  [k \in 1..Len(sorted) |-> sorted[k][2]]

\* a run of mergeTradeData: its trades and the positions it consumed
mergeRun(balanceList, orderList, zone) ==
    LET sortedOrders == sortByTime(orderList, zone)
        sortedBalance == sortByTime(balanceList, zone)
        positionHistory == firstPass(<<>>, sortedOrders, 1, zone)
        run == secondPass([positions |-> positionHistory, trades |-> <<>>,
                           consumed |-> <<>>],
                          sortedOrders, sortedBalance, 1, zone)
    IN  [trades |-> sortByExitDesc(run.trades), consumed |-> run.consumed]

mergeTradeData(balanceList, orderList, zone) ==
    mergeRun(balanceList, orderList, zone).trades

\* the tags parseBalanceHistoryTrades gives a trade
singleFileTags(entry) ==
    (IF entry.exchange # "" THEN <<entry.exchange>> ELSE <<>>)
    \o (IF Abs(entry.pnl) > 5000 THEN <<"Big Trade">> ELSE <<>>)
    \o (IF IncludesAny(entry.symbol, {"XAU", "XAG"}) THEN <<"Metals">> ELSE <<>>)
    \o (IF IncludesAny(entry.symbol, {"BTC", "ETH", "SOL"}) THEN <<"Crypto">> ELSE <<>>)
    \o (IF /\ IncludesAny(entry.symbol, {"JPY", "USD", "EUR", "GBP", "CAD"})
           /\ ~Includes(entry.symbol, "XAU")
        THEN <<"Forex">> ELSE <<>>)

\* parseBalanceHistoryTrades: the single-file mode, in entry order
parseBalanceHistoryTrades(entries, zone) ==
    LET kept == SelectSeq(entries,
                    LAMBDA e : ~ \/ e.symbol = ""
                                 \/ e.direction = ""
                                 \/ ~Truthy(e.entryPrice)
                                 \/ ~Truthy(e.exitPrice))
    IN  [k \in 1..Len(kept) |->
            closedTrade(kept[k],
                        \* new Date(exitTime - 2 h).toISOString()
                        <<getTime(kept[k].time, zone) - 7200>>,
                        NULL, NULL, singleFileTags(kept[k]))]

(* The inputs of the reconciliation checks *)

\* the most data lines of an order log, and of a balance history
MaxOrderLines == 3
MaxBalanceLines == 2

OrderLinePool ==
    { OrderLine("entry", 1000, "OANDA:EURUSD", "sell", 100, 0, 11950, 11800),
      OrderLine("execute", 1002, "OANDA:EURUSD", "", 100, 11905, 0, 0),
      OrderLine("modify", 1000, "OANDA:EURUSD", "", 0, 0, 11930, 11780),
      OrderLine("entry", 1000, "OANDA:EURUSD", "sell", 100, 0, 11990, 11700),
      OrderLine("entry", 1500, "OANDA:EURUSD", "sell", 100, 0, 0, 11700),
      OrderLine("entry", 1200, "OANDA:EURUSD", "buy", 100, 0, 11800, 12100),
      OrderLine("limit", 1005, "OANDA:EURUSD", "sell", 100, 11900, 11960, 11810),
      OrderLine("text", 1000, "", "", 0, 0, 0, 0),
      OrderLine("broken", 0, "", "", 0, 0, 0, 0) }

BalanceLinePool ==
    { BalanceLine("close", 20000, 1500, "short", "OANDA", "EURUSD", 11800, 100, 11900),
      BalanceLine("close", 20000, -500, "short", "OANDA", "EURUSD", 11950, 100, 11900),
      BalanceLine("close", 20500, 6000, "long", "OANDA", "EURUSD", 12000, 100, 0),
      BalanceLine("other", 5000, 250, "", "", "", 0, 0, 0),
      BalanceLine("broken", 0, 0, "", "", "", 0, 0, 0) }

\* the offsets of the local clock from UTC, in seconds
TimeZones == {0, 3600}

\* the lists of at most n different elements of S
ListsUpTo(S, n) ==
    UNION {{f \in [1..k -> S] : \A i, j \in 1..k : i # j => f[i] # f[j]} : k \in 0..n}

ImportInit ==
    /\ ReadIdle
    /\ MergeIdle
    /\ JournalIdle
    /\ ConvIdle
    /\ RateIdle
    /\ StatIdle
    /\ Mt5Idle
    /\ ScreenIdle
    /\ journalLines \in ListsUpTo(OrderLinePool, MaxOrderLines)
    /\ balanceLines \in ListsUpTo(BalanceLinePool, MaxBalanceLines)
    /\ timeZone \in TimeZones
    /\ importPc = "files"
    /\ parsedTrades = <<>>
    /\ consumed = <<>>

\* both files read: mergeTradeData(parseBalanceHistoryCSV(..), parseOrderLogsCSV(..))
MergeFiles ==
    /\ importPc = "files"
    /\ LET run == mergeRun(parseBalanceHistoryCSV(balanceLines),
                           parseOrderLogsCSV(journalLines), timeZone)
       IN  /\ parsedTrades' = run.trades
           /\ consumed' = run.consumed
    /\ importPc' = "merged"
    /\ UNCHANGED <<journalLines, balanceLines, timeZone, notImportVars>>

\* the balance history alone: parseBalanceHistoryTrades(parseBalanceHistoryCSV(..))
SingleFile ==
    /\ importPc = "files"
    /\ parsedTrades' =
         parseBalanceHistoryTrades(parseBalanceHistoryCSV(balanceLines), timeZone)
    /\ consumed' = <<>>
    /\ importPc' = "single"
    /\ UNCHANGED <<journalLines, balanceLines, timeZone, notImportVars>>

ImportNext == MergeFiles \/ SingleFile

SpecImport == ImportInit /\ [][ImportNext]_vars


-----------------------------------------------------------------------------
(* Properties of the reconciler *)

Range(s) == {s[k] : k \in DOMAIN s}

\* the close lines of the balance history
CloseLines == {b \in Range(balanceLines) : b.kind = "close"}

\* the places in parsedTrades of the trades that report the close line b
TradesOf(b) ==
    {k \in DOMAIN parsedTrades :
        LET t == parsedTrades[k]
        IN  /\ t.symbol = b.symbol
            /\ t.direction = b.direction
            /\ t.entryPrice = b.entryPrice
            /\ t.exitPrice = <<b.exitPrice>>
            /\ t.units = b.units
            /\ t.exitTime = <<b.time>>
            /\ t.pnl = RInt(b.pnl)}

\* the order-log lines the parser keeps that name the symbol of the close line b
OrdersOn(b) ==
    {o \in Range(journalLines) :
        o.kind # "broken" /\ o.symbol = b.exchange \o ":" \o b.symbol}

\* a list with its elements i and i+1 exchanged
Swapped(s, i) == [s EXCEPT ![i] = s[i + 1], ![i + 1] = s[i]]

\* the trades of a merge of the two exports given as lists of data lines
MergeOf(balance, journal) ==
    Range(mergeTradeData(parseBalanceHistoryCSV(balance), parseOrderLogsCSV(journal),
                         timeZone))

(* C2: merging the same two exports with two neighbouring data lines of one
   of them exchanged gives the same set of trades. *)
C2_SameTradesAfterReshuffle ==
    importPc = "merged" =>
        /\ \A i \in 1..(Len(journalLines) - 1) :
             MergeOf(balanceLines, Swapped(journalLines, i)) = Range(parsedTrades)
        /\ \A i \in 1..(Len(balanceLines) - 1) :
             MergeOf(Swapped(balanceLines, i), journalLines) = Range(parsedTrades)

(* C3: a close line of the balance history with no order event on its symbol
   (in the merge), or any close line (in the single-file mode), gets exactly
   one trade, with null stop-loss and take-profit and an entry time two hours
   before its exit time. *)
C3_UnmatchedGetsTwoHours ==
    importPc \in {"merged", "single"} =>
        \A b \in CloseLines :
            (importPc = "merged" => OrdersOn(b) = {}) =>
                /\ Cardinality(TradesOf(b)) = 1
                /\ \A k \in TradesOf(b) :
                     /\ parsedTrades[k].stopLoss = NULL
                     /\ parsedTrades[k].takeProfit = NULL
                     /\ parsedTrades[k].entryTime = <<b.time - 7200>>

C5_OneClosedTradePerCloseLine ==
    importPc = "merged" =>
        /\ Len(parsedTrades) = Cardinality(CloseLines)
        /\ \A b \in CloseLines : Cardinality(TradesOf(b)) = 1
        /\ \A k \in DOMAIN parsedTrades : parsedTrades[k].status = "closed"
        /\ \A k \in 1..(Len(parsedTrades) - 1) :
             parsedTrades[k].exitTime[1] >= parsedTrades[k + 1].exitTime[1]

\* a merge of a balance history given in ascending time, with a line that is
\* no close line or a close line without an order on its symbol: two trades,
\* the later exit first
C5_Witness ==
    /\ importPc = "merged"
    /\ Len(balanceLines) >= 2
    /\ \A k \in 1..(Len(balanceLines) - 1) : balanceLines[k].time < balanceLines[k + 1].time
    /\ Len(parsedTrades) = 2
    /\ parsedTrades[1].exitTime[1] > parsedTrades[2].exitTime[1]


\* the order-log line c is a market-order entry call with stop-loss and
\* take-profit that fits the close line b: its symbol, its direction, its
\* units, and a time before its exit
EntryCallFits(c, b) ==
    /\ c.kind = "entry"
    /\ c.symbol = b.exchange \o ":" \o b.symbol
    /\ c.side = (IF b.direction = "long" THEN "buy" ELSE "sell")
    /\ c.units = b.units
    /\ c.time < b.time

\* the trade of the close line b has the levels and the time of the call c
LevelsFrom(c, b) ==
    \A k \in TradesOf(b) :
        /\ parsedTrades[k].stopLoss = <<c.stopLoss>>
        /\ parsedTrades[k].takeProfit = <<c.takeProfit>>
        /\ parsedTrades[k].entryTime = <<c.time>>

(* C6 as claimed: an entry call that fits a close line, with no modify of the
   symbol after it, gives the trade of that line its stop-loss, its
   take-profit and its time. *)
C6_EntryCallGivesLevels ==
    importPc = "merged" =>
        \A b \in CloseLines : \A c \in Range(journalLines) :
            (/\ EntryCallFits(c, b)
             /\ ~ \E m \in OrdersOn(b) : m.kind = "modify" /\ m.time > c.time)
                => LevelsFrom(c, b)

(* C6 amended: an entry call with non-zero stop-loss and take-profit that fits
   a close line with a non-zero entry price gives the trade of that line its
   stop-loss, its take-profit and its time, when the log has no other entry
   call for that symbol and direction, no modify of the symbol at or after the
   call's time, and the balance history no other close line for that symbol
   and direction. *)
C6_OnlyEntryCallGivesLevels ==
    importPc = "merged" =>
        \A b \in CloseLines : \A c \in Range(journalLines) :
            (/\ EntryCallFits(c, b)
             /\ c.stopLoss # 0
             /\ c.takeProfit # 0
             /\ b.entryPrice # 0
             /\ ~ \E d \in OrdersOn(b) : d # c /\ d.kind = "entry" /\ d.side = c.side
             /\ ~ \E m \in OrdersOn(b) : m.kind = "modify" /\ m.time >= c.time
             /\ ~ \E a \in CloseLines :
                    a # b /\ a.exchange = b.exchange /\ a.symbol = b.symbol
                          /\ a.direction = b.direction)
                => LevelsFrom(c, b)

\* a merge where the only order of the log is an entry call that fits the only
\* close line: no execution gave the position a price, the units matched
C6_Witness ==
    /\ importPc = "merged"
    /\ Len(journalLines) = 1
    /\ Len(balanceLines) = 1
    /\ \E b \in CloseLines :
         /\ EntryCallFits(journalLines[1], b)
         /\ TradesOf(b) # {}
         /\ LevelsFrom(journalLines[1], b)
    /\ consumed = <<1>>


-----------------------------------------------------------------------------
(* Trade journal: the store of trades and the trade form.

   A trade of the journal carries its status, its exit and the fields its
   P&L is computed from; the symbol, the entry time, the stop-loss, the
   take-profit, the currency, the notes, the tags and the strategy, which
   take no part in these, are left out. *)

\* the most trades the store holds
MaxTrades == 2

\* what the user types into the form: entry price, exit price, exit time, units
PriceInputs == {100}
ExitPriceInputs == {110}
ExitTimeInputs == {5000}
UnitInputs == {10}

\* the useEffect of TradeModal: the form of the trade to edit
FormOf(trade) ==
    [direction |-> trade.direction,
     entryPrice |-> <<trade.entryPrice>>,
     exitPrice |-> trade.exitPrice,
     units |-> <<trade.units>>,
     \* new Date(trade.exitTime).toISOString().slice(0, 16): the seconds are cut
     exitTime |-> IF trade.exitTime = NULL THEN NULL
                  ELSE <<trade.exitTime[1] - (trade.exitTime[1] % 60)>>,
     status |-> trade.status]

\* handleSubmit: the trade handed to onSave
SubmittedTrade(form, zone) ==
    LET entryPrice == form.entryPrice[1]
        exitPrice == form.exitPrice
        units == form.units[1]
        computed == exitPrice # NULL /\ form.status = "closed"
        pnl == IF form.direction = "long" THEN (exitPrice[1] - entryPrice) * units
               ELSE (entryPrice - exitPrice[1]) * units
    IN  [direction |-> form.direction,
         entryPrice |-> entryPrice,
         exitPrice |-> exitPrice,
         units |-> units,
         \* new Date(formData.exitTime).toISOString(): the input is local time
         exitTime |-> IF form.exitTime = NULL THEN NULL
                      ELSE <<getTime(form.exitTime[1], zone)>>,
         pnl |-> IF computed THEN RInt(pnl) ELSE NULL,
         pnlPercent |-> IF computed THEN Rat(pnl * 100, entryPrice * units) ELSE NULL,
         status |-> form.status]

\* { ...trade, id }: a trade of the store
WithId(trade, id) ==
    [id |-> id, direction |-> trade.direction, entryPrice |-> trade.entryPrice,
     exitPrice |-> trade.exitPrice, units |-> trade.units, exitTime |-> trade.exitTime,
     pnl |-> trade.pnl, pnlPercent |-> trade.pnlPercent, status |-> trade.status]

\* addTrade: the new trade in front, unless the remote store refuses it
addTrade(store, trade, id, stored) ==
    IF stored THEN <<WithId(trade, id)>> \o store ELSE store

\* updateTrade: { ...trade, ...updates } for the trade of that id, unless the
\* remote store refuses the update
updateTrade(store, id, updates, stored) ==
    IF stored
    THEN [k \in DOMAIN store |-> IF store[k].id = id THEN WithId(updates, id) ELSE store[k]]
    ELSE store

JournalInit ==
    /\ ReadIdle
    /\ MergeIdle
    /\ ConvIdle
    /\ RateIdle
    /\ StatIdle
    /\ ImportIdle
    /\ Mt5Idle
    /\ ScreenIdle
    /\ timeZone \in TimeZones
    /\ trades = <<>>
    /\ session \in BOOLEAN
    /\ nextId = 1
    /\ isModalOpen = FALSE
    /\ modalMode = "add"
    /\ selectedTrade = 0
    /\ formData = EmptyForm

\* Journal.handleAddClick: the form opens empty
HandleAddClick ==
    /\ ~isModalOpen
    /\ Len(trades) < MaxTrades
    /\ selectedTrade' = 0
    /\ modalMode' = "add"
    /\ isModalOpen' = TRUE
    /\ formData' = EmptyForm
    /\ UNCHANGED <<trades, session, nextId, notJournalVars>>

\* Journal.handleEditClick / handleDetailsEdit: the form opens on a trade
HandleEditClick ==
    /\ ~isModalOpen
    /\ \E k \in DOMAIN trades :
        /\ selectedTrade' = trades[k].id
        /\ formData' = FormOf(trades[k])
    /\ modalMode' = "edit"
    /\ isModalOpen' = TRUE
    /\ UNCHANGED <<trades, session, nextId, notJournalVars>>

\* the direction, entry price and units inputs
SetEntry ==
    /\ isModalOpen
    /\ \E d \in {"long", "short"}, p \in PriceInputs, u \in UnitInputs :
        formData' = [formData EXCEPT !.direction = d, !.entryPrice = <<p>>, !.units = <<u>>]
    /\ UNCHANGED <<trades, session, nextId, isModalOpen, modalMode, selectedTrade,
                   notJournalVars>>

\* the exit price input, which may be emptied
SetExitPrice ==
    /\ isModalOpen
    /\ \E x \in {NULL} \cup {<<p>> : p \in ExitPriceInputs} :
        formData' = [formData EXCEPT !.exitPrice = x]
    /\ UNCHANGED <<trades, session, nextId, isModalOpen, modalMode, selectedTrade,
                   notJournalVars>>

\* the exit time input, which may be emptied
SetExitTime ==
    /\ isModalOpen
    /\ \E x \in {NULL} \cup {<<t>> : t \in ExitTimeInputs} :
        formData' = [formData EXCEPT !.exitTime = x]
    /\ UNCHANGED <<trades, session, nextId, isModalOpen, modalMode, selectedTrade,
                   notJournalVars>>

\* the status select: any of its three options
SetStatus ==
    /\ isModalOpen
    /\ \E s \in {"open", "closed", "cancelled"} :
        formData' = [formData EXCEPT !.status = s]
    /\ UNCHANGED <<trades, session, nextId, isModalOpen, modalMode, selectedTrade,
                   notJournalVars>>

\* TradeModal.handleSubmit, Journal.handleModalSave and the store's addTrade
\* or updateTrade; with a session the remote store may refuse
HandleSubmit ==
    /\ isModalOpen
    \* the required inputs
    /\ formData.entryPrice # NULL
    /\ formData.units # NULL
    \* the times of the model start at 0
    /\ formData.exitTime # NULL => getTime(formData.exitTime[1], timeZone) >= 0
    /\ \E stored \in (IF session THEN BOOLEAN ELSE {TRUE}) :
        IF modalMode = "add"
        THEN /\ trades' = addTrade(trades, SubmittedTrade(formData, timeZone), nextId, stored)
             /\ nextId' = IF stored THEN nextId + 1 ELSE nextId
        ELSE /\ trades' = updateTrade(trades, selectedTrade,
                                       SubmittedTrade(formData, timeZone), stored)
             /\ UNCHANGED nextId
    /\ isModalOpen' = FALSE
    /\ UNCHANGED <<session, modalMode, selectedTrade, formData, notJournalVars>>

\* TradeModal onClose
CloseModal ==
    /\ isModalOpen
    /\ isModalOpen' = FALSE
    /\ UNCHANGED <<trades, session, nextId, modalMode, selectedTrade, formData,
                   notJournalVars>>

JournalNext ==
    \/ HandleAddClick
    \/ HandleEditClick
    \/ SetEntry
    \/ SetExitPrice
    \/ SetExitTime
    \/ SetStatus
    \/ HandleSubmit
    \/ CloseModal

SpecJournal == JournalInit /\ [][JournalNext]_vars

(* C7: every trade of the store whose status is closed has an exit price, an
   exit time and a P&L. *)
C7_ClosedTradeIsComplete ==
    \A k \in DOMAIN trades :
        trades[k].status = "closed" =>
            /\ trades[k].exitPrice # NULL
            /\ trades[k].exitTime # NULL
            /\ trades[k].pnl # NULL

(* C8: no step changes the status of a trade that is closed or cancelled. *)
C8_ClosedAndCancelledAreFinal ==
    [][\A k \in DOMAIN trades :
         trades[k].status \in {"closed", "cancelled"} =>
            \A j \in DOMAIN trades' :
                trades'[j].id = trades[k].id => trades'[j].status = trades[k].status]_vars

-----------------------------------------------------------------------------
(* Rate table refresh: fetchExchangeRates *)

\* 24 * 60 * 60 * 1000 milliseconds, in the hours of the model's clock
CACHE_DURATION == 24

\* { ...table, ...update } : the keys of both, the update's value where it has one
Spread(table, update) ==
    [c \in DOMAIN table \cup DOMAIN update |->
        IF c \in DOMAIN update THEN update[c] ELSE table[c]]

\* JSON.stringify({ rates, timestamp }) as localStorage keeps it
CacheItem(table, timestamp) ==
    [kind |-> "entry", rates |-> table, timestamp |-> timestamp]

\* a stored string JSON.parse cannot read
BrokenItem == [kind |-> "garbage"]

\* lines 30-33: absent or old gives "miss", a young entry "hit", and
\* JSON.parse throws on a string it cannot read
cacheCheck(cached, clock) ==
    IF cached.kind = "absent" THEN "miss"
    ELSE IF cached.kind = "garbage" THEN "throw"
    ELSE IF clock - cached.timestamp < CACHE_DURATION THEN "hit"
    ELSE "miss"

\* lines 35-37: the cached rates over the table, then USC
fromCache(table, cachedRates) ==
    Spread(Spread(table, cachedRates), [USC |-> Fl(<<1, 100>>)])

\* lines 58-65: the response's rates over the table, then the four fixed codes
fromResponse(table, dataRates) ==
    Spread(Spread(table, dataRates),
           [USD |-> Fl(<<1, 1>>), USC |-> Fl(<<1, 100>>),
            USDC |-> Fl(<<1, 1>>), USDT |-> Fl(<<1, 1>>)])

\* the same continuation with a catch block that also stores what it has (a mutant)
afterFetch_storesOnError(table, cached, clock, response) ==
    IF response.kind = "ok"
    THEN LET updated == fromResponse(table, response.rates)
         IN  [table |-> updated, storage |-> CacheItem(updated, clock), pc |-> "updated"]
    ELSE [table |-> table, storage |-> CacheItem(table, clock), pc |-> "failed"]

\* lines 45-79: what the invocation does once its request has settled.  A
\* rejected fetch, a response that is not OK and a body that is no JSON (or
\* JSON without an object) end in the catch block, which only logs.
afterFetch(table, cached, clock, response) ==
    IF response.kind = "ok"
    THEN LET updated == fromResponse(table, response.rates)
         IN  [table |-> updated, storage |-> CacheItem(updated, clock), pc |-> "updated"]
    ELSE [table |-> table, storage |-> cached, pc |-> "failed"]

(* The inputs of the rate-fetch checks *)

\* what the rate source can answer
ResponseInputs ==
    { [kind |-> "rejected"], [kind |-> "notOk"], [kind |-> "badJson"],
      [kind |-> "ok", rates |-> [EUR |-> Fl(<<92, 100>>), JPY |-> Fl(<<14925, 100>>)]],
      [kind |-> "ok", rates |-> [EUR |-> Fl(<<93, 100>>), USDC |-> Fl(<<99, 100>>),
                                 USC |-> Fl(<<2, 1>>)]] }

\* what localStorage can hold when the page loads: nothing, a string that is
\* no JSON, an entry exactly 24 hours old, and a young entry written by
\* something other than this version of fetchExchangeRates
StorageInputs ==
    { NoItem, BrokenItem,
      CacheItem([EUR |-> Fl(<<92, 100>>)], -CACHE_DURATION),
      CacheItem([EUR |-> Fl(<<95, 100>>), USDT |-> Fl(<<99, 100>>)], 0) }

\* how far the clock moves between two steps
TickInputs == {12}

RateInit ==
    /\ ReadIdle
    /\ MergeIdle
    /\ ConvIdle
    /\ JournalIdle
    /\ ImportIdle
    /\ Mt5Idle
    /\ ScreenIdle
    /\ timeZone = 0
    /\ currentExchangeRates = DefaultExchangeRates
    /\ statTrades = <<>>
    /\ baseCurrency = "USD"
    /\ statsPc = "idle"
    /\ stats = NULL
    /\ now = 0
    /\ storage \in StorageInputs
    /\ fetchPc = [i \in Calls |-> "idle"]
    /\ requests = <<>>

\* lines 27-43: an invocation runs up to its first await
FetchStart(i) ==
    /\ fetchPc[i] # "fetching"
    /\ LET found == cacheCheck(storage, now)
       IN  CASE found = "hit" ->
                  /\ currentExchangeRates' = fromCache(currentExchangeRates, storage.rates)
                  /\ fetchPc' = [fetchPc EXCEPT ![i] = "cached"]
                  /\ UNCHANGED requests
             [] found = "throw" ->
                  /\ fetchPc' = [fetchPc EXCEPT ![i] = "failed"]
                  /\ UNCHANGED <<currentExchangeRates, requests>>
             [] found = "miss" ->
                  /\ Len(requests) < MaxRequests
                  /\ requests' = Append(requests, now)
                  /\ fetchPc' = [fetchPc EXCEPT ![i] = "fetching"]
                  /\ UNCHANGED currentExchangeRates
    /\ UNCHANGED <<now, storage, notRateVars>>

\* lines 43-79: the request settles and the invocation runs to its end
FetchSettle(i) ==
    /\ fetchPc[i] = "fetching"
    /\ \E response \in ResponseInputs :
          LET after == afterFetch(currentExchangeRates, storage, now, response)
          IN  /\ currentExchangeRates' = after.table
              /\ storage' = after.storage
              /\ fetchPc' = [fetchPc EXCEPT ![i] = after.pc]
    /\ UNCHANGED <<now, requests, notRateVars>>

\* time passes
Tick ==
    /\ \E d \in TickInputs :
          /\ now + d <= MaxClock
          /\ now' = now + d
    /\ UNCHANGED <<currentExchangeRates, storage, fetchPc, requests, notRateVars>>

RateNext ==
    \/ \E i \in Calls : FetchStart(i)
    \/ \E i \in Calls : FetchSettle(i)
    \/ Tick

SpecRates == RateInit /\ [][RateNext]_vars

(* C11: no two requests to the rate source are issued less than 24 hours
   apart, whatever the sequence and interleaving of the invocations. *)
C11_RequestsADayApart ==
    \A i, j \in 1 .. Len(requests) :
        i < j => requests[j] - requests[i] >= CACHE_DURATION

(* C12: after any sequence of invocations the process-wide rate table has
   USDC = 1, USDT = 1 and USC = 0.01, whatever the rate source answered and
   whatever the cache item holds. *)
C12_FixedRates ==
    /\ currentExchangeRates["USDC"] = Fl(<<1, 1>>)
    /\ currentExchangeRates["USDT"] = Fl(<<1, 1>>)
    /\ currentExchangeRates["USC"] = Fl(<<1, 100>>)

(* C13: an invocation whose fetch fails (or whose cache item cannot be
   parsed) completes normally, and the step in which it fails changes
   neither the process-wide rate table nor the cache item. *)
C13_FailureChangesNothing ==
    [][\A i \in Calls :
          (fetchPc[i] # "failed" /\ fetchPc'[i] = "failed")
              => /\ currentExchangeRates' = currentExchangeRates
                 /\ storage' = storage]_vars

\* an invocation failed after its request, with a refreshed table and a cache
\* entry of an earlier invocation in place
C13_Witness ==
    /\ \E i \in Calls : fetchPc[i] = "failed"
    /\ requests # <<>>
    /\ currentExchangeRates # DefaultExchangeRates
    /\ storage.kind = "entry"
    /\ storage.rates = currentExchangeRates

-----------------------------------------------------------------------------
(* Statistics engine: win rate, profit factor, expectancy and drawdown *)

\* the closed trades of the call, and their P&L in the base currency
StatClosed == ClosedWithPnl(statTrades)
StatPnl(t) == getPnl(t, baseCurrency, currentExchangeRates)
StatWinners == SelectSeq(StatClosed, LAMBDA t : RPos(t.pnl))
StatLosers == SelectSeq(StatClosed, LAMBDA t : RNegative(t.pnl))
StatEven == SelectSeq(StatClosed, LAMBDA t : RIsZero(t.pnl))

\* the sum of the converted P&L of a list of trades, and the mean of its
\* absolute values (0 for no trades)
GrossSum(ts) == FlSum([k \in 1..Len(ts) |-> StatPnl(ts[k])])
MeanAbs(ts) ==
    IF ts = <<>> THEN RZero
    ELSE RDiv(FlSum([k \in 1..Len(ts) |-> RAbs(StatPnl(ts[k]))]), RInt(Len(ts)))

(* C14: winRate is 100 times the number of closed trades with pnl > 0 over the
   number of closed trades; a closed trade with pnl 0 is neither winning nor
   losing but counts in the denominator. *)
C14_WinRate ==
    (statsPc = "done" /\ StatClosed # <<>>) =>
        /\ stats.winningTrades = Len(StatWinners)
        /\ stats.losingTrades = Len(StatLosers)
        /\ stats.winningTrades + stats.losingTrades + Len(StatEven) = Len(StatClosed)
        /\ stats.winRate = Rat(100 * Len(StatWinners), Len(StatClosed))

\* a winner and a trade that broke even: one of two closed trades wins
C14_Witness ==
    /\ statsPc = "done"
    /\ Len(StatClosed) = 2
    /\ Len(StatEven) = 1
    /\ stats.winningTrades = 1
    /\ stats.losingTrades = 0
    /\ stats.winRate = RInt(50)

(* C15: profitFactor is the converted P&L of the winners over the absolute
   converted P&L of the losers; Infinity when the losers sum to 0 and the
   winners to more; 0 when both sums are 0, and 0 when there are losses and
   no wins. *)
C15_ProfitFactor ==
    (statsPc = "done" /\ StatClosed # <<>>) =>
        LET grossWinSum == GrossSum(StatWinners)
            grossLossSum == GrossSum(StatLosers)
        IN  /\ ~RIsZero(grossLossSum) =>
                  stats.profitFactor = RDiv(grossWinSum, RAbs(grossLossSum))
            /\ (RIsZero(grossLossSum) /\ RPos(grossWinSum)) =>
                  stats.profitFactor = Infinity
            /\ (RIsZero(grossLossSum) /\ RIsZero(grossWinSum)) =>
                  stats.profitFactor = RZero
            /\ (StatWinners = <<>> /\ StatLosers # <<>>) =>
                  stats.profitFactor = RZero

\* the journal of a single loser of -1000: a profit factor of 0
C15_Witness ==
    /\ statsPc = "done"
    /\ Len(statTrades) = 1
    /\ statTrades[1].pnl = <<-1000, 1>>
    /\ stats.losingTrades = 1
    /\ stats.profitFactor = RZero

\* winners only: an infinite profit factor
C15_WitnessInfinite ==
    /\ statsPc = "done"
    /\ StatWinners # <<>>
    /\ StatLosers = <<>>
    /\ stats.profitFactor = Infinity

(* C16: expectancy = w * averageWin - (1 - w) * averageLoss, w the winners'
   share of the closed trades, averageWin the mean converted P&L of the
   winners and averageLoss the mean absolute converted P&L of the losers
   (each 0 for an empty set); six winners of +100 and four losers of -50
   give 40. *)
C16_Expectancy ==
    (statsPc = "done" /\ StatClosed # <<>>) =>
        LET w == Rat(Len(StatWinners), Len(StatClosed))
        IN  /\ stats.averageWin = MeanAbs(StatWinners)
            /\ stats.averageLoss = MeanAbs(StatLosers)
            /\ stats.expectancy =
                  RSub(RMul(w, MeanAbs(StatWinners)),
                       RMul(RSub(RInt(1), w), MeanAbs(StatLosers)))
            /\ (statTrades \in ScenarioInputs /\ Len(statTrades) = 10
                    /\ baseCurrency = "USD")
                  => stats.expectancy = RInt(40)

\* the journal of six winners of +100 and four losers of -50, in US dollars
C16_Witness ==
    /\ statsPc = "done"
    /\ baseCurrency = "USD"
    /\ Len(StatWinners) = 6
    /\ Len(StatLosers) = 4
    /\ stats.winRate = RInt(60)
    /\ stats.profitFactor = RInt(3)
    /\ stats.averageWin = RInt(100)
    /\ stats.averageLoss = RInt(50)
    /\ stats.expectancy = RInt(40)

\* a loser beside a trade that broke even: the loss weighs 1 - w = 1
C16_WitnessEven ==
    /\ statsPc = "done"
    /\ Len(StatClosed) = 2
    /\ Len(StatEven) = 1
    /\ Len(StatLosers) = 1
    /\ stats.expectancy = RNeg(stats.averageLoss)
    /\ RPos(stats.averageLoss)

\* the converted P&L of the closed trades in the order of the walk
StatReturns ==
    LET sorted == sortedTradesOf(StatClosed)
    IN  [k \in 1..Len(sorted) |-> StatPnl(sorted[k])]

\* the largest element of a non-empty set of rationals
Largest(S) == CHOOSE x \in S : \A y \in S : RLeq(y, x)

\* the equity after k trades, its peak so far (0 before the first trade) and
\* the drawdown from that peak
EquityAt(k) == SumSeq(SubSeq(StatReturns, 1, k))
PeakAt(k) == Largest({EquityAt(j) : j \in 0..k})
DrawdownAt(k) == RSub(PeakAt(k), EquityAt(k))

(* C17: the closed trades are walked in ascending order of exit time with an
   equity and a peak that start at 0; maxDrawdown is the largest
   peak - equity seen, maxDrawdownPercent the largest drawdown / peak * 100
   among the steps with peak > 0; maxDrawdown is never negative, and a single
   loser of -1000 gives 1000 and 0. *)
C17_Drawdown ==
    (statsPc = "done" /\ StatClosed # <<>>) =>
        LET n == Len(StatClosed)
            sorted == sortedTradesOf(StatClosed)
            risen == {k \in 1..n : RPos(PeakAt(k))}
        IN  /\ \A k \in 1..(n - 1) :
                  OrZero(sorted[k].exitTime) <= OrZero(sorted[k + 1].exitTime)
            /\ stats.maxDrawdown = Largest({DrawdownAt(k) : k \in 1..n})
            /\ stats.maxDrawdownPercent =
                  Largest({RZero} \cup
                          {RMul(RDiv(DrawdownAt(k), PeakAt(k)), RInt(100)) : k \in risen})
            /\ RLeq(RZero, stats.maxDrawdown)
            /\ (n = 1 /\ Len(statTrades) = 1 /\ statTrades[1].pnl = <<-1000, 1>>
                    /\ baseCurrency = "USD")
                  => /\ stats.maxDrawdown = RInt(1000)
                     /\ stats.maxDrawdownPercent = RZero

\* the single loser of -1000
C17_Witness ==
    /\ statsPc = "done"
    /\ Len(statTrades) = 1
    /\ statTrades[1].pnl = <<-1000, 1>>
    /\ baseCurrency = "USD"
    /\ stats.maxDrawdown = RInt(1000)
    /\ stats.maxDrawdownPercent = RZero

\* a fall after a rise, given in the list before the rise: the walk follows
\* exit times, and the fall is measured against the peak
C17_WitnessSorted ==
    /\ statsPc = "done"
    /\ Len(StatClosed) = 2
    /\ RNegative(StatClosed[1].pnl)
    /\ RPos(StatClosed[2].pnl)
    /\ OrZero(StatClosed[2].exitTime) < OrZero(StatClosed[1].exitTime)
    /\ RPos(stats.maxDrawdownPercent)

-----------------------------------------------------------------------------
(* MT5 report parser: parseMT5Report

   A report is the list of the texts of its `tr > th` cells in document
   order and the rows that follow the row of the first th naming the
   Positions table; a row is the list of the texts of its cells and whether
   one of them is a th.  The numbers of the report are short decimals, read
   exactly. *)

\* the most data rows of a report
MaxMt5Rows == 2

\* Number.NaN
NaN == <<0, 0>>

\* a + b on numbers
NumAdd(a, b) == IF a = NaN \/ b = NaN THEN NaN ELSE RAdd(a, b)

\* String.prototype.trim on the texts the model uses
Trim(text) ==
    CASE text = " SELL " -> "SELL"
      [] text = " " -> ""
      [] OTHER -> text

\* String.prototype.toLowerCase on the texts the model uses
ToLowerCase(text) ==
    CASE text = "SELL" -> "sell"
      [] text = "Buy" -> "buy"
      [] text = "Balance" -> "balance"
      [] OTHER -> text

\* parseFloat: the number at the start of the text, NaN when there is none
parseFloat(text) ==
    CASE text = "0" -> RZero
      [] text = "50" -> RInt(50)
      [] text = "-30" -> RInt(-30)
      [] text = "-1" -> RInt(-1)
      [] text = "-2" -> RInt(-2)
      [] text = "-3" -> RInt(-3)
      [] text = "1 250" -> RInt(1)
      [] text = "0.10" -> Rat(1, 10)
      [] text = "1.10" -> Rat(110, 100)
      [] text = "1.09" -> Rat(109, 100)
      [] text = "1.12" -> Rat(112, 100)
      [] OTHER -> NaN

\* parseFloat(text || '0')
parseFloatOrZero(text) == parseFloat(IF text = "" THEN "0" ELSE text)

\* text ? parseFloat(text) : null
parseFloatOrNull(text) == IF text = "" THEN NULL ELSE parseFloat(text)

\* formatMT5Date: every `.` becomes `-` and the first blank `T`
formatMT5Date(dateStr) ==
    CASE dateStr = "2026.02.14 15:34:03" -> "2026-02-14T15:34:03"
      [] dateStr = "2026.02.14 16:00:00" -> "2026-02-14T16:00:00"
      [] OTHER -> dateStr

\* h.textContent?.includes('Positions') on the header texts the model uses
NamesPositions(text) == text \in {"Positions", "Open Positions"}

\* the net P&L without the charges (a mutant)
netPnl_profitOnly(profit, commission, swap) == profit

\* line 79: pnl = profit + commission + swap
netPnl(profit, commission, swap) == NumAdd(NumAdd(profit, commission), swap)

\* lines 52-99: the trades (none or one) a walked row gives
rowTrades(cells) ==
    IF Len(cells) < 14 THEN <<>>
    ELSE LET type == ToLowerCase(Trim(cells[4]))
             entryTimeStr == Trim(cells[1])
             symbol == Trim(cells[3])
             exitTimeStr == Trim(cells[10])
         IN  IF type \notin {"buy", "sell"} \/ entryTimeStr = "" \/ symbol = ""
             THEN <<>>
             ELSE << [symbol |-> symbol,
                      direction |-> IF type = "buy" THEN "long" ELSE "short",
                      entryPrice |-> parseFloatOrZero(Trim(cells[7])),
                      exitPrice |-> parseFloatOrZero(Trim(cells[11])),
                      units |-> parseFloatOrZero(Trim(cells[6])),
                      entryTime |-> formatMT5Date(entryTimeStr),
                      exitTime |-> IF exitTimeStr # ""
                                   THEN formatMT5Date(exitTimeStr) ELSE "",
                      stopLoss |-> parseFloatOrNull(Trim(cells[8])),
                      takeProfit |-> parseFloatOrNull(Trim(cells[9])),
                      pnl |-> netPnl(parseFloatOrZero(Trim(cells[14])),
                                     parseFloatOrZero(Trim(cells[12])),
                                     parseFloatOrZero(Trim(cells[13]))),
                      pnlPercent |-> NULL,
                      status |-> "closed",
                      notes |-> "Import MT5 #" \o Trim(cells[2]),
                      tags |-> <<"MT5", "Imported">>] >>

\* the walk stopping at the first row of fewer than fourteen cells (a mutant)
RECURSIVE walkRows_stopsBelowFourteen(_, _)
walkRows_stopsBelowFourteen(rows, k) ==
    IF k > Len(rows) THEN <<>>
    ELSE IF rows[k].th \/ Len(rows[k].cells) < 14 THEN <<>>
    ELSE rowTrades(rows[k].cells) \o walkRows_stopsBelowFourteen(rows, k + 1)

\* lines 26-103: the walk over the rows from the k-th on, up to the first row
\* with a th or with fewer than five cells
RECURSIVE walkRows(_, _)
walkRows(rows, k) ==
    IF k > Len(rows) THEN <<>>
    ELSE IF rows[k].th \/ Len(rows[k].cells) < 5 THEN <<>>
    ELSE rowTrades(rows[k].cells) \o walkRows(rows, k + 1)

\* the same parser returning no trades where it should throw (a mutant)
parseMT5Report_silent(report) ==
    IF \A k \in 1..Len(report.headers) : ~NamesPositions(report.headers[k])
    THEN [threw |-> FALSE, message |-> "", trades |-> <<>>]
    ELSE [threw |-> FALSE, message |-> "", trades |-> walkRows(report.rows, 2)]

\* parseMT5Report: the trades of the Positions table, or the error thrown
parseMT5Report(report) ==
    IF \A k \in 1..Len(report.headers) : ~NamesPositions(report.headers[k])
    THEN [threw |-> TRUE,
          message |-> "Table \"Positions\" non trouvée dans le rapport MT5",
          trades |-> <<>>]
    \* the first row after the title row holds the column names
    ELSE [threw |-> FALSE, message |-> "", trades |-> walkRows(report.rows, 2)]

(* The inputs of the report-parser checks *)

Mt5Row(cells) == [th |-> FALSE, cells |-> cells]

\* the row of the column names, a row of th cells
ColumnRow == [th |-> TRUE, cells |-> <<"Time", "Position", "Symbol", "Type">>]

Mt5RowPool ==
    { \* a long position: profit 50, commission -2, swap -1
      Mt5Row(<<"2026.02.14 15:34:03", "1001", "EURUSD", "buy", "", "0.10", "1.10",
               "1.09", "1.12", "2026.02.14 16:00:00", "1.12", "-2", "-1", "50">>),
      \* a short position without levels and without a commission
      Mt5Row(<<"2026.02.14 15:34:03", "1002", "EURUSD", " SELL ", "", "0.10", "1.10",
               "", "", "2026.02.14 16:00:00", "1.12", "", "0", "-30">>),
      \* a long position with a profit of 1250 printed in groups of three digits
      Mt5Row(<<"2026.02.14 15:34:03", "1003", "EURUSD", "Buy", "", "0.10", "1.10",
               "1.09", "1.12", "", "1.12", "-3", " ", "1 250">>),
      \* a balance operation
      Mt5Row(<<"2026.02.14 15:34:03", "1004", "", "Balance", "", "", "", "", "",
               "", "", "0", "0", "50">>),
      \* a position without a symbol
      Mt5Row(<<"2026.02.14 15:34:03", "1005", "", "buy", "", "0.10", "1.10",
               "1.09", "1.12", "2026.02.14 16:00:00", "1.12", "-2", "-1", "50">>),
      \* a row of thirteen cells
      Mt5Row(<<"2026.02.14 15:34:03", "1006", "EURUSD", "buy", "0.10", "1.10",
               "1.09", "1.12", "2026.02.14 16:00:00", "1.12", "-2", "-1", "50">>),
      \* a spacer row
      Mt5Row(<<"">>),
      \* the title row of the next table
      [th |-> TRUE, cells |-> <<"Orders">>] }

Mt5HeaderInputs == {<<>>, <<"Orders", "Deals">>, <<"Trade History Report", "Positions">>}

Mt5ReportInputs ==
    { [headers |-> h, rows |-> rs] :
        h \in Mt5HeaderInputs,
        rs \in {<<>>} \cup {<<ColumnRow>> \o d : d \in SeqsUpTo(Mt5RowPool, MaxMt5Rows)} }

Mt5Init ==
    /\ ReadIdle
    /\ MergeIdle
    /\ ConvIdle
    /\ StatIdle
    /\ RateIdle
    /\ JournalIdle
    /\ ImportIdle
    /\ ScreenIdle
    /\ timeZone = 0
    /\ mt5Report \in Mt5ReportInputs
    /\ mt5Pc = "call"
    /\ mt5Result = NoResult

\* parseMT5Report(htmlContent)
ParseMT5Report ==
    /\ mt5Pc = "call"
    /\ mt5Result' = parseMT5Report(mt5Report)
    /\ mt5Pc' = "done"
    /\ UNCHANGED <<mt5Report, notMt5Vars>>

Mt5Next == ParseMT5Report

SpecMt5 == Mt5Init /\ [][Mt5Next]_vars

\* the rows of the Positions table: those after the column names, up to the
\* first row with a th or fewer than five cells
PositionRows ==
    LET rows == mt5Report.rows
        stops == {k \in 2..Len(rows) : rows[k].th \/ Len(rows[k].cells) < 5}
        last == IF stops = {} THEN Len(rows)
                ELSE (CHOOSE k \in stops : \A j \in stops : k <= j) - 1
    IN  SubSeq(rows, 2, last)

\* the type of a row of at least fourteen cells names a direction
NamesDirection(row) ==
    Len(row.cells) >= 14 /\ row.cells[4] \in {"buy", "sell", "Buy", " SELL "}

\* the position numbers of the trades, read off their notes
TicketOf(trade) ==
    CHOOSE t \in {"1001", "1002", "1003", "1004", "1005", "1006"} :
        trade.notes = "Import MT5 #" \o t

(* C18: every trade of parseMT5Report comes from a row of the Positions table
   with at least fourteen cells whose type cell is buy or sell in any case
   (buy gives long, sell gives short), and its pnl is the row's
   profit + commission + swap; profit 50, commission -2 and swap -1 give 47. *)
C18_TradeRows ==
    (mt5Pc = "done" /\ ~mt5Result.threw) =>
        \A k \in 1..Len(mt5Result.trades) :
            LET trade == mt5Result.trades[k]
            IN  \E j \in 1..Len(PositionRows) :
                  LET row == PositionRows[j]
                  IN  /\ NamesDirection(row)
                      /\ row.cells[2] = TicketOf(trade)
                      /\ trade.direction =
                            (IF row.cells[4] \in {"buy", "Buy"} THEN "long" ELSE "short")
                      /\ trade.pnl =
                            NumAdd(NumAdd(parseFloatOrZero(Trim(row.cells[14])),
                                          parseFloatOrZero(Trim(row.cells[12]))),
                                   parseFloatOrZero(Trim(row.cells[13])))
                      /\ (row.cells[14] = "50" /\ row.cells[12] = "-2"
                              /\ row.cells[13] = "-1") => trade.pnl = RInt(47)

\* a report whose Positions table gave a long trade of 47 from the row with
\* profit 50, commission -2 and swap -1, beside a row that is no trade
C18_Witness ==
    /\ mt5Pc = "done"
    /\ Len(mt5Report.rows) = 3
    /\ Len(mt5Result.trades) = 1
    /\ mt5Result.trades[1].direction = "long"
    /\ mt5Result.trades[1].pnl = RInt(47)
    /\ mt5Result.trades[1].notes = "Import MT5 #1001"

-----------------------------------------------------------------------------
(* Import screen: ImportCSV

   A handler is modelled from the choice of the file to the end of the
   FileReader's onload callback.  A file is its name and its content. *)

\* the most files read in one visit of the screen
MaxReads == 3

\* lines 54-61: the trades shown after a balance history has been read
tradesOfBalanceFile(entries, orderEntries, zone) ==
    IF Len(orderEntries) > 0
    THEN mergeTradeData(entries, orderEntries, zone)
    ELSE parseBalanceHistoryTrades(entries, zone)

\* the messages of the three handlers for a file without entries or trades
NoBalanceTrades == "Aucun trade trouvé dans le fichier historique des soldes"
NoJournalEntries == "Aucune entrée trouvée dans le journal de trading"
NoMt5Trades ==
    "Aucun trade trouvé dans le rapport MT5. Assurez-vous d'utiliser le rapport HTML standard."

\* line 113: the message for an error thrown by parseMT5Report
Mt5ErrorMessage(message) == "Erreur lors de l'analyse du rapport MT5: " \o message

(* The inputs of the import-screen checks *)

BalanceFileInputs ==
    { [name |-> "header-only.csv", lines |-> <<>>],
      [name |-> "unreadable.csv",
       lines |-> <<BalanceLine("broken", 0, 0, "", "", "", 0, 0, 0)>>],
      [name |-> "deposit.csv",
       lines |-> <<BalanceLine("other", 5000, 250, "", "", "", 0, 0, 0)>>],
      [name |-> "closes.csv",
       lines |-> <<BalanceLine("close", 20000, 1500, "short", "OANDA", "EURUSD",
                               11800, 100, 11900)>>] }

JournalFileInputs ==
    { [name |-> "header-only.csv", lines |-> <<>>],
      [name |-> "orders.csv",
       lines |-> <<OrderLine("entry", 1000, "OANDA:EURUSD", "sell", 100, 0, 11950, 11800)>>],
      [name |-> "messages.csv",
       lines |-> <<OrderLine("text", 1000, "", "", 0, 0, 0, 0)>>] }

Mt5FileInputs ==
    { [name |-> "orders-only.html",
       report |-> [headers |-> <<"Orders", "Deals">>, rows |-> <<>>]],
      [name |-> "no-positions.html",
       report |-> [headers |-> <<"Trade History Report", "Positions">>,
                   rows |-> <<ColumnRow, [th |-> TRUE, cells |-> <<"Orders">>]>>]],
      [name |-> "report.html",
       report |-> [headers |-> <<"Trade History Report", "Positions">>,
                   rows |-> <<ColumnRow,
                              Mt5Row(<<"2026.02.14 15:34:03", "1001", "EURUSD", "buy", "",
                                       "0.10", "1.10", "1.09", "1.12",
                                       "2026.02.14 16:00:00", "1.12", "-2", "-1", "50">>)>>]] }

ScreenInit ==
    /\ ReadIdle
    /\ MergeIdle
    /\ ConvIdle
    /\ StatIdle
    /\ RateIdle
    /\ JournalIdle
    /\ Mt5Idle
    /\ timeZone \in TimeZones
    /\ journalLines = <<>>
    /\ balanceLines = <<>>
    /\ importPc = "idle"
    /\ consumed = <<>>
    /\ parsedTrades = <<>>
    /\ balanceFile = ""
    /\ journalFile = ""
    /\ mt5File = ""
    /\ balanceEntries = <<>>
    /\ journalEntries = <<>>
    /\ error = ""
    /\ lastRead = NoRead
    /\ reads = 0

\* handleBalanceFile: the balance history is read and parsed
HandleBalanceFile(file) ==
    /\ reads < MaxReads
    /\ LET entries == parseBalanceHistoryCSV(file.lines)
       IN  IF Len(entries) = 0
           THEN /\ error' = NoBalanceTrades
                /\ UNCHANGED <<balanceEntries, balanceFile, parsedTrades>>
           ELSE /\ balanceEntries' = entries
                /\ balanceFile' = file.name
                /\ error' = ""
                /\ parsedTrades' = tradesOfBalanceFile(entries, journalEntries, timeZone)
    /\ lastRead' = [handler |-> "balance", name |-> file.name]
    /\ reads' = reads + 1
    /\ UNCHANGED <<journalFile, mt5File, journalEntries, timeZone, notScreenVars>>

\* handleJournalFile: the order log is read and parsed
HandleJournalFile(file) ==
    /\ reads < MaxReads
    /\ LET entries == parseOrderLogsCSV(file.lines)
       IN  IF Len(entries) = 0
           THEN /\ error' = NoJournalEntries
                /\ UNCHANGED <<journalEntries, journalFile, parsedTrades>>
           ELSE /\ journalEntries' = entries
                /\ journalFile' = file.name
                /\ error' = ""
                /\ IF Len(balanceEntries) > 0
                   THEN parsedTrades' = mergeTradeData(balanceEntries, entries, timeZone)
                   ELSE UNCHANGED parsedTrades
    /\ lastRead' = [handler |-> "journal", name |-> file.name]
    /\ reads' = reads + 1
    /\ UNCHANGED <<balanceFile, mt5File, balanceEntries, timeZone, notScreenVars>>

\* handleMt5File: the report is read and parsed
HandleMt5File(file) ==
    /\ reads < MaxReads
    /\ LET result == parseMT5Report(file.report)
       IN  IF result.threw
           THEN /\ error' = Mt5ErrorMessage(result.message)
                /\ UNCHANGED <<parsedTrades, mt5File>>
           ELSE IF Len(result.trades) = 0
           THEN /\ error' = NoMt5Trades
                /\ UNCHANGED <<parsedTrades, mt5File>>
           ELSE /\ parsedTrades' = result.trades
                /\ mt5File' = file.name
                /\ error' = ""
    /\ lastRead' = [handler |-> "mt5", name |-> file.name]
    /\ reads' = reads + 1
    /\ UNCHANGED <<balanceFile, journalFile, balanceEntries, journalEntries, timeZone,
                   notScreenVars>>

\* resetImport: back to the empty screen
ResetImport ==
    /\ balanceFile' = ""
    /\ journalFile' = ""
    /\ mt5File' = ""
    /\ balanceEntries' = <<>>
    /\ journalEntries' = <<>>
    /\ parsedTrades' = <<>>
    /\ error' = ""
    /\ UNCHANGED <<lastRead, reads, timeZone, notScreenVars>>

ScreenNext ==
    \/ \E file \in BalanceFileInputs : HandleBalanceFile(file)
    \/ \E file \in JournalFileInputs : HandleJournalFile(file)
    \/ \E file \in Mt5FileInputs : HandleMt5File(file)
    \/ ResetImport

SpecScreen == ScreenInit /\ [][ScreenNext]_vars

\* the content of the files by name
BalanceLinesOf(name) == (CHOOSE f \in BalanceFileInputs : f.name = name).lines
JournalLinesOf(name) == (CHOOSE f \in JournalFileInputs : f.name = name).lines
ReportOf(name) == (CHOOSE f \in Mt5FileInputs : f.name = name).report

\* this step reads a file with the given handler
Reads(handler) == reads' = reads + 1 /\ lastRead'.handler = handler

(* C19: for a report without a th cell whose text contains "Positions",
   parseMT5Report throws its error and returns no trades, and the screen
   shows the error's message and keeps its parsed trades and its selected
   report. *)
C19_MissingPositionsTable ==
    [][(/\ Reads("mt5")
        /\ \A k \in 1..Len(ReportOf(lastRead'.name).headers) :
              ~NamesPositions(ReportOf(lastRead'.name).headers[k]))
          => /\ parseMT5Report(ReportOf(lastRead'.name)).threw
             /\ parseMT5Report(ReportOf(lastRead'.name)).trades = <<>>
             /\ error' = "Erreur lors de l'analyse du rapport MT5: "
                           \o "Table \"Positions\" non trouvée dans le rapport MT5"
             /\ parsedTrades' = parsedTrades
             /\ mt5File' = mt5File]_vars

\* a report without Positions table read after a good report: the message is
\* shown over the trades and the file of the good report
C19_Witness ==
    /\ lastRead = [handler |-> "mt5", name |-> "orders-only.html"]
    /\ error = Mt5ErrorMessage("Table \"Positions\" non trouvée dans le rapport MT5")
    /\ mt5File = "report.html"
    /\ Len(parsedTrades) = 1

\* this step reads a file that gives no trade
ReadsNoTrades ==
    \/ /\ Reads("balance")
       /\ tradesOfBalanceFile(parseBalanceHistoryCSV(BalanceLinesOf(lastRead'.name)),
                              journalEntries, timeZone) = <<>>
    \/ /\ Reads("journal")
       /\ \/ parseOrderLogsCSV(JournalLinesOf(lastRead'.name)) = <<>>
          \/ /\ balanceEntries # <<>>
             /\ mergeTradeData(balanceEntries,
                               parseOrderLogsCSV(JournalLinesOf(lastRead'.name)),
                               timeZone) = <<>>
    \/ /\ Reads("mt5")
       /\ ~parseMT5Report(ReportOf(lastRead'.name)).threw
       /\ parseMT5Report(ReportOf(lastRead'.name)).trades = <<>>

(* C20: whenever a balance history, an order log or an MT5 report that gives
   no trade is read, the screen shows a "no trades found" message and keeps
   its entries and its parsed trades. *)
C20_NoTradesIsReported ==
    [][ReadsNoTrades
          => /\ error' \in {NoBalanceTrades, NoJournalEntries, NoMt5Trades}
             /\ UNCHANGED <<balanceEntries, journalEntries, parsedTrades>>]_vars

-----------------------------------------------------------------------------
(* mergeTradeData step by step.

   The two passes of mergeTradeData are taken one loop iteration at a time:
   an order event of the first pass, then a balance event of the second, so
   that the position states between two iterations can be looked at.  The
   iterations are those of the merge above (firstPassStep, secondPassStep). *)

\* the most data lines of the order log, and of the balance history
MaxScanOrders == 3
MaxScanBalance == 2

ScanOrderPool ==
    { OrderLine("entry", 900, "OANDA:EURUSD", "sell", 100, 0, 11990, 11700),
      OrderLine("entry", 950, "OANDA:EURUSD", "sell", 50, 0, 11980, 11750),
      OrderLine("entry", 1000, "OANDA:EURUSD", "sell", 100, 0, 11950, 11800),
      OrderLine("execute", 1002, "OANDA:EURUSD", "", 100, 11905, 0, 0),
      OrderLine("entry", 1004, "OANDA:EURUSD", "sell", 100, 0, 11960, 11810),
      OrderLine("entry", 1100, "OANDA:XAUUSD", "sell", 100, 0, 20500, 19500),
      OrderLine("entry", 1200, "OANDA:EURUSD", "buy", 100, 0, 11800, 12100),
      OrderLine("modify", 1500, "OANDA:EURUSD", "", 0, 0, 11930, 11780),
      OrderLine("modify", 30000, "OANDA:EURUSD", "", 0, 0, 11999, 11111) }

ScanBalancePool ==
    { BalanceLine("close", 20000, 1500, "short", "OANDA", "EURUSD", 11800, 100, 11900),
      BalanceLine("close", 20100, -500, "short", "OANDA", "EURUSD", 11950, 100, 0),
      BalanceLine("close", 960, 200, "short", "OANDA", "EURUSD", 11850, 100, 11900) }

notMergeVars ==
    <<convVars, statVars, rateVars, importVars, mt5Vars, screenVars, readVars, journalVars>>

\* the call of mergeTradeData up to its first loop: both lists sorted by time
MergeInit ==
    /\ ReadIdle
    /\ JournalIdle
    /\ ConvIdle
    /\ RateIdle
    /\ StatIdle
    /\ ImportIdle
    /\ Mt5Idle
    /\ ScreenIdle
    /\ timeZone \in TimeZones
    /\ \E lines \in ListsUpTo(ScanOrderPool, MaxScanOrders) :
         scanOrders = sortByTime(parseOrderLogsCSV(lines), timeZone)
    /\ \E lines \in ListsUpTo(ScanBalancePool, MaxScanBalance) :
         scanBalance = sortByTime(parseBalanceHistoryCSV(lines), timeZone)
    /\ positionStates = <<>>
    /\ mergePc = "orders"
    /\ cursor = 1
    /\ mergeTrades = <<>>
    /\ matchedPosition = NoPosition

\* one iteration of `for (const order of sortedOrders)`
ScanOrder ==
    /\ mergePc = "orders"
    /\ cursor <= Len(scanOrders)
    /\ positionStates' = firstPassStep(positionStates, scanOrders, cursor, timeZone)
    /\ cursor' = cursor + 1
    /\ UNCHANGED <<scanOrders, scanBalance, mergePc, mergeTrades, matchedPosition,
                   timeZone, notMergeVars>>

\* the first loop is left, the second begins
EndFirstPass ==
    /\ mergePc = "orders"
    /\ cursor > Len(scanOrders)
    /\ mergePc' = "balance"
    /\ cursor' = 1
    /\ UNCHANGED <<scanOrders, scanBalance, positionStates, mergeTrades, matchedPosition,
                   timeZone, notMergeVars>>

\* the balance event is passed over by the `continue` at the head of the loop
passedOver(balance) ==
    \/ balance.symbol = ""
    \/ balance.direction = ""
    \/ balance.entryPrice = NULL
    \/ balance.exitPrice = NULL

\* one iteration of `for (const balance of sortedBalance)`
MatchBalance ==
    /\ mergePc = "balance"
    /\ cursor <= Len(scanBalance)
    /\ LET balance == scanBalance[cursor]
           m == matchPosition(positionStates, 1, balance, 0, timeZone)
           run == secondPassStep([positions |-> positionStates, trades |-> mergeTrades,
                                  consumed |-> <<>>],
                                 scanOrders, balance, timeZone)
       IN  /\ positionStates' = run.positions
           /\ mergeTrades' = run.trades
           /\ matchedPosition' = IF ~passedOver(balance) /\ m > 0 THEN positionStates[m]
                                 ELSE NoPosition
    /\ cursor' = cursor + 1
    /\ UNCHANGED <<scanOrders, scanBalance, mergePc, timeZone, notMergeVars>>

\* the second loop is left: the trades are sorted and returned
SortTrades ==
    /\ mergePc = "balance"
    /\ cursor > Len(scanBalance)
    /\ mergeTrades' = sortByExitDesc(mergeTrades)
    /\ mergePc' = "done"
    /\ UNCHANGED <<scanOrders, scanBalance, positionStates, cursor, matchedPosition,
                   timeZone, notMergeVars>>

MergeNext == ScanOrder \/ EndFirstPass \/ MatchBalance \/ SortTrades

SpecMerge == MergeInit /\ [][MergeNext]_vars

\* the stepwise merge returns what mergeTradeData returns
MergeStepsAgree ==
    mergePc = "done" => mergeTrades = mergeTradeData(scanBalance, scanOrders, timeZone)

(* Properties of the matching loop *)

\* this step is the iteration of the second loop for the balance event b
MatchStepOf(b) ==
    /\ mergePc = "balance"
    /\ cursor <= Len(scanBalance)
    /\ cursor' = cursor + 1
    /\ b = scanBalance[cursor]

\* the places of the position states a balance event can be matched to: its
\* full symbol, its direction, an entry time strictly before its exit time
Candidates(b) ==
    {i \in DOMAIN positionStates :
        /\ positionStates[i].symbol = b.exchange \o ":" \o b.symbol
        /\ positionStates[i].direction = b.direction
        /\ getTime(positionStates[i].entryTime, timeZone) < getTime(b.time, timeZone)}

\* the candidates whose entry price is within 0.1% of the reported entry price
PriceCandidates(b) ==
    {i \in Candidates(b) :
        /\ b.entryPrice[1] # 0
        /\ RLess(Rat(Abs(positionStates[i].entryPrice - b.entryPrice[1]),
                     b.entryPrice[1]),
                 Rat(1, 1000))}

\* the candidates whose unit count is within one unit of the reported one
UnitCandidates(b) ==
    {i \in Candidates(b) : Abs(positionStates[i].units - b.units[1]) < 1}

(* C21: the position matched to a balance event is the first candidate (in
   insertion order) whose entry price is within 0.1% of the reported entry
   price; only when no candidate passes the price test is a candidate with
   the same unit count matched, or none. *)
C21_CandidateSelection ==
    [][\A b \in Range(scanBalance) :
         MatchStepOf(b) =>
            /\ PriceCandidates(b) # {} =>
                 \E i \in PriceCandidates(b) :
                    /\ \A j \in PriceCandidates(b) : i <= j
                    /\ matchedPosition' = positionStates[i]
            /\ PriceCandidates(b) = {} =>
                 \/ matchedPosition' = NoPosition
                 \/ \E i \in UnitCandidates(b) : matchedPosition' = positionStates[i]]_vars

\* a balance event was matched by price to the second position of its symbol
\* although the first one, opened earlier without an execution, has its units
C21_Witness ==
    /\ mergePc = "balance"
    /\ cursor = 2
    /\ scanBalance[1].time = 20000
    /\ Len(scanOrders) = 3
    /\ scanOrders[1].time = 900
    /\ scanOrders[2].time = 1000
    /\ matchedPosition # NoPosition
    /\ matchedPosition.id = 2
    /\ matchedPosition.entryPrice = 11905
    /\ Len(positionStates) = 1
    /\ positionStates[1].entryPrice = 0
    /\ positionStates[1].units = 100

\* a balance event was matched by its units alone: no position had its price
C21_WitnessFallback ==
    /\ mergePc = "balance"
    /\ cursor = 2
    /\ scanBalance[1].time = 20000
    /\ matchedPosition # NoPosition
    /\ matchedPosition.entryPrice = 0
    /\ matchedPosition.units = 100

\* the trade pushed by the step
PushedTrade == mergeTrades'[Len(mergeTrades')]

\* the places in the history of a position whose time is not after the exit
\* time of the balance event b
HistoryUpTo(pos, b) ==
    {i \in DOMAIN pos.slTpHistory :
        getTime(pos.slTpHistory[i].time, timeZone) <= getTime(b.time, timeZone)}

(* C22: the trade pushed for a balance event that was matched to a position
   has the entry time of the position, and the stop-loss and the take-profit
   of the last pair of the position's history whose time is not after the
   exit time of the balance event. *)
C22_MatchedTradeLevels ==
    [][\A b \in Range(scanBalance) :
         (MatchStepOf(b) /\ matchedPosition' # NoPosition) =>
            LET pos == matchedPosition'
            IN  /\ Len(mergeTrades') = Len(mergeTrades) + 1
                /\ PushedTrade.entryTime = <<pos.entryTime>>
                /\ \E i \in HistoryUpTo(pos, b) :
                     /\ \A j \in HistoryUpTo(pos, b) : j <= i
                     /\ PushedTrade.stopLoss = pos.slTpHistory[i].stopLoss
                     /\ PushedTrade.takeProfit = pos.slTpHistory[i].takeProfit]_vars

\* a position modified once before and once after the exit was matched: the
\* trade has the levels of the first modification, not the current ones
C22_Witness ==
    /\ mergePc = "balance"
    /\ cursor = 2
    /\ scanBalance[1].time = 20000
    /\ matchedPosition # NoPosition
    /\ Len(matchedPosition.slTpHistory) = 3
    /\ matchedPosition.slTpHistory[3].time = 30000
    /\ matchedPosition.stopLoss = <<11999>>
    /\ mergeTrades[Len(mergeTrades)].entryTime = <<matchedPosition.entryTime>>
    /\ mergeTrades[Len(mergeTrades)].stopLoss = <<11930>>
    /\ mergeTrades[Len(mergeTrades)].takeProfit = <<11780>>

(* Properties of the first pass *)

\* this step is the iteration of the first loop for the order event o
ScanStepOf(o) ==
    /\ mergePc = "orders"
    /\ cursor <= Len(scanOrders)
    /\ cursor' = cursor + 1
    /\ o = scanOrders[cursor]

\* the order event is a modify with a stop-loss and a take-profit
IsModify(o) ==
    /\ o.action = "modify"
    /\ o.stopLoss # NULL /\ o.stopLoss # <<0>>
    /\ o.takeProfit # NULL /\ o.takeProfit # <<0>>

\* the places of the positions of a symbol
PositionsOn(symbol) == {i \in DOMAIN positionStates : positionStates[i].symbol = symbol}

\* the fields of a position a modify leaves alone
Identity(pos) ==
    <<pos.id, pos.symbol, pos.entryTime, pos.entryPrice, pos.units, pos.direction>>

(* C23: a modify event with a stop-loss and a take-profit changes one
   position only, the one appended last for its symbol: its current levels
   become those of the event and its history gets one more pair, the pairs
   it had being kept.  Every other position stays as it was, and without a
   position of the symbol nothing changes. *)
C23_ModifyTouchesLastPosition ==
    [][\A o \in Range(scanOrders) :
         (ScanStepOf(o) /\ IsModify(o)) =>
            /\ Len(positionStates') = Len(positionStates)
            /\ PositionsOn(o.symbol) = {} => positionStates' = positionStates
            /\ \A i \in DOMAIN positionStates :
                 IF i \in PositionsOn(o.symbol) /\ \A j \in PositionsOn(o.symbol) : j <= i
                 THEN /\ Identity(positionStates'[i]) = Identity(positionStates[i])
                      /\ positionStates'[i].stopLoss = o.stopLoss
                      /\ positionStates'[i].takeProfit = o.takeProfit
                      /\ positionStates'[i].slTpHistory =
                           Append(positionStates[i].slTpHistory,
                                  [time |-> o.time, stopLoss |-> o.stopLoss,
                                   takeProfit |-> o.takeProfit])
                 ELSE positionStates'[i] = positionStates[i]]_vars

\* two positions of one symbol and a modify: the later position has the new
\* levels and a history of two pairs, the earlier one is as it was opened
C23_Witness ==
    /\ mergePc = "orders"
    /\ cursor = 4
    /\ IsModify(scanOrders[3])
    /\ Len(positionStates) = 2
    /\ positionStates[1].symbol = positionStates[2].symbol
    /\ positionStates[2].symbol = scanOrders[3].symbol
    /\ Len(positionStates[1].slTpHistory) = 1
    /\ positionStates[1].stopLoss = positionStates[1].slTpHistory[1].stopLoss
    /\ Len(positionStates[2].slTpHistory) = 2
    /\ positionStates[2].stopLoss = scanOrders[3].stopLoss

\* a position of another symbol is left alone by a modify
C23_WitnessOtherSymbol ==
    /\ mergePc = "orders"
    /\ cursor = 4
    /\ IsModify(scanOrders[3])
    /\ Len(positionStates) = 2
    /\ positionStates[2].symbol # scanOrders[3].symbol
    /\ Len(positionStates[2].slTpHistory) = 1
    /\ Len(positionStates[1].slTpHistory) = 2

\* a modify before any position of its symbol
C23_WitnessNoPosition ==
    /\ mergePc = "orders"
    /\ cursor = 2
    /\ IsModify(scanOrders[1])
    /\ positionStates = <<>>

\* the step appends a position for the order event o
OpensPosition(o) ==
    /\ ScanStepOf(o)
    /\ Len(positionStates') = Len(positionStates) + 1

\* the position the step appends
OpenedPosition == positionStates'[Len(positionStates')]

\* the places, among those of `among`, of the executions of the entry call o:
\* its symbol, its units, less than 5 s from it
ExecutionsOf(o, among) ==
    {j \in among :
        /\ scanOrders[j].action = "execute"
        /\ scanOrders[j].symbol = o.symbol
        /\ scanOrders[j].units = o.units
        /\ Abs(getTime(scanOrders[j].time, timeZone) - getTime(o.time, timeZone)) < 5}

\* the entry price of the position opened for o is the price of one of the
\* executions at the places `among`, and 0 when there is none
PriceFrom(o, among) ==
    IF ExecutionsOf(o, among) = {} THEN OpenedPosition.entryPrice = 0
    ELSE \E j \in ExecutionsOf(o, among) : <<OpenedPosition.entryPrice>> = scanOrders[j].price

(* C24 as claimed: the entry price of the position opened for an entry call
   is the price of an execution of that call among the order events scanned
   before it, and 0 when there is none among them. *)
C24_ExecutionAlreadySeen ==
    [][\A o \in Range(scanOrders) :
         OpensPosition(o) => PriceFrom(o, 1 .. (cursor - 1))]_vars

(* C24 amended: the entry price of the position opened for an entry call is
   the price of an execution of that call among all the order events of the
   log, those scanned after the call included, and 0 when there is none. *)
C24_ExecutionAnywhere ==
    [][\A o \in Range(scanOrders) :
         OpensPosition(o) => PriceFrom(o, DOMAIN scanOrders)]_vars

\* a position has the price of an execution that comes after its entry call
\* in the scan
C24_Witness ==
    /\ mergePc = "orders"
    /\ cursor = 2
    /\ Len(positionStates) = 1
    /\ positionStates[1].id = 1
    /\ positionStates[1].entryPrice = 11905
    /\ \E j \in 2 .. Len(scanOrders) :
         /\ scanOrders[j].action = "execute"
         /\ scanOrders[j].price = <<11905>>
         /\ scanOrders[j].time > scanOrders[1].time

\* a position has the price of an execution scanned before its entry call
C24_WitnessSeen ==
    /\ mergePc = "orders"
    /\ cursor = 3
    /\ scanOrders[1].action = "execute"
    /\ Len(positionStates) = 1
    /\ positionStates[1].id = 2
    /\ positionStates[1].entryPrice = 11905

(* C25: every trade of a merge or of the single-file mode is tagged with its
   exchange, with "Big Trade" exactly when |pnl| > 5000 and with
   "Good Trade" exactly when |pnl| > 1000, and a trade on a metal (XAU, XAG)
   is not tagged "Forex". *)
C25_Tags ==
    importPc \in {"merged", "single"} =>
        \A b \in CloseLines : \A k \in TradesOf(b) :
            LET tags == Range(parsedTrades[k].tags)
            IN  /\ b.exchange \in tags
                /\ "Big Trade" \in tags <=> Abs(b.pnl) > 5000
                /\ "Good Trade" \in tags <=> Abs(b.pnl) > 1000
                /\ IncludesAny(b.symbol, {"XAU", "XAG"}) => "Forex" \notin tags

(* Properties of the walk over the rows of the report *)

\* the rows after the row of the column names, up to the first row with a th
\* or with fewer than `least` cells
RowsBefore(least) ==
    LET rows == mt5Report.rows
        stops == {k \in 2..Len(rows) : rows[k].th \/ Len(rows[k].cells) < least}
        last == IF stops = {} THEN Len(rows)
                ELSE (CHOOSE k \in stops : \A j \in stops : k <= j) - 1
    IN  SubSeq(rows, 2, last)

\* the notes of the trades the rows give, in the order of the rows: a row
\* gives a trade when it names a direction, an entry time and a symbol
NotesOf(rowList) ==
    LET giving == SelectSeq(rowList,
                     LAMBDA r : /\ NamesDirection(r)
                                /\ r.cells[1] # ""
                                /\ r.cells[3] # "")
    IN  [k \in 1..Len(giving) |-> "Import MT5 #" \o giving[k].cells[2]]

\* the notes of the trades parseMT5Report returned
ReturnedNotes == [k \in 1..Len(mt5Result.trades) |-> mt5Result.trades[k].notes]

(* C26 as claimed: the trades of parseMT5Report are those of the rows before
   the first row with a header cell or with fewer than 14 cells. *)
C26_StopsBelowFourteenCells ==
    (mt5Pc = "done" /\ ~mt5Result.threw) => ReturnedNotes = NotesOf(RowsBefore(14))

(* C26 amended: the trades of parseMT5Report are those of the rows before the
   first row with a header cell or with fewer than 5 cells; no row after such
   a row is turned into a trade. *)
C26_StopsBelowFiveCells ==
    (mt5Pc = "done" /\ ~mt5Result.threw) => ReturnedNotes = NotesOf(RowsBefore(5))

\* a row of thirteen cells did not end the walk: the row after it is a trade
C26_Witness ==
    /\ mt5Pc = "done"
    /\ ~mt5Result.threw
    /\ Len(mt5Report.rows) = 3
    /\ Len(mt5Report.rows[2].cells) = 13
    /\ ~mt5Report.rows[2].th
    /\ Len(mt5Result.trades) = 1
    /\ mt5Result.trades[1].notes = "Import MT5 #" \o mt5Report.rows[3].cells[2]

\* a spacer row ended the walk: the row after it is no trade
C26_WitnessStop ==
    /\ mt5Pc = "done"
    /\ ~mt5Result.threw
    /\ Len(mt5Report.rows) = 3
    /\ Len(mt5Report.rows[2].cells) < 5
    /\ NamesDirection(mt5Report.rows[3])
    /\ mt5Report.rows[3].cells[3] # ""
    /\ mt5Result.trades = <<>>

(* Statistics engine: runs of wins and losses *)

\* the length of the longest run of TRUE in a list of booleans
LongestRun(flags) ==
    LET runs == {<<i, j>> \in (DOMAIN flags) \X (DOMAIN flags) :
                    i <= j /\ \A k \in i..j : flags[k]}
    IN  IF runs = {} THEN 0
        ELSE CHOOSE n \in 1..Len(flags) :
                /\ \E r \in runs : r[2] - r[1] + 1 = n
                /\ \A r \in runs : r[2] - r[1] + 1 <= n

\* for each closed trade in ascending order of exit time: its P&L is positive
StatWon ==
    LET sorted == sortedTradesOf(StatClosed)
    IN  [k \in 1..Len(sorted) |-> RPos(sorted[k].pnl)]

(* C27: consecutiveWins is the length of the longest run of closed trades
   with a P&L above 0, consecutiveLosses that of the longest run of closed
   trades with a P&L of 0 or less, the closed trades taken in ascending order
   of exit time; consecutiveWins is at most winningTrades. *)
C27_Runs ==
    statsPc = "done" =>
        /\ stats.consecutiveWins = LongestRun(StatWon)
        /\ stats.consecutiveLosses = LongestRun([k \in DOMAIN StatWon |-> ~StatWon[k]])
        /\ stats.consecutiveWins <= stats.winningTrades

\* the journal of ten trades with losers at the places 3, 6, 8 and 9: six
\* winners, never more than two in a row, and two losers in a row
C27_Witness ==
    /\ statsPc = "done"
    /\ Len(statTrades) = 10
    /\ stats.winningTrades = 6
    /\ stats.consecutiveWins = 2
    /\ stats.consecutiveLosses = 2

\* a trade that broke even after a loser: a run of two losses, given in the
\* list in another order than that of the exit times
C27_WitnessEven ==
    /\ statsPc = "done"
    /\ Len(StatClosed) = 3
    /\ Len(StatEven) = 1
    /\ Len(StatLosers) = 1
    /\ RPos(StatClosed[1].pnl)
    /\ OrZero(StatClosed[1].exitTime) > OrZero(StatClosed[2].exitTime)
    /\ stats.consecutiveLosses = 2
    /\ stats.consecutiveWins = 1

(* Statistics engine: the order of the input list *)

\* the closed trades of the call leave at different times
DistinctExits ==
    \A i, j \in DOMAIN StatClosed :
        i # j => OrZero(StatClosed[i].exitTime) # OrZero(StatClosed[j].exitTime)

\* the step is the call of calculateStats
StatCall == statsPc = "call" /\ statsPc' = "done"

\* the statistics of the input list with its elements i and i+1 exchanged
StatsSwapped(i) ==
    calculateStats(Swapped(statTrades, i), baseCurrency, currentExchangeRates)

(* C30: the call of calculateStats leaves its input list as it was, and when
   the closed trades have different exit times the result is that of the
   list in any other order (it is enough to exchange two neighbours). *)
C30_SameForEveryOrder ==
    [][StatCall =>
         /\ statTrades' = statTrades
         /\ DistinctExits =>
              \A i \in 1..(Len(statTrades) - 1) : StatsSwapped(i) = stats']_vars

\* the fields of the result that are counted, or computed on the sorted copy
\* of the closed trades
OrderFreeFields ==
    {"totalTrades", "winningTrades", "losingTrades", "winRate", "largestWin",
     "largestLoss", "consecutiveWins", "consecutiveLosses", "averageHoldingTime",
     "maxDrawdown", "maxDrawdownPercent"}

(* C30 amended: the call of calculateStats leaves its input list as it was,
   and when the closed trades have different exit times the fields that are
   counted or computed on the sorted copy are those of the list in any other
   order. *)
C30_OrderFreeFields ==
    [][StatCall =>
         /\ statTrades' = statTrades
         /\ DistinctExits =>
              \A i \in 1..(Len(statTrades) - 1) :
                 \A f \in OrderFreeFields : StatsSwapped(i)[f] = stats'[f]]_vars

\* the statistics of three closed trades of different exit times, given in
\* the list in another order than that of the exit times: with two
\* neighbours exchanged the total P&L is another, the runs and the drawdown
\* are the same
C30_Witness ==
    /\ statsPc = "done"
    /\ Len(StatClosed) = 3
    /\ DistinctExits
    /\ \E i \in 1..(Len(statTrades) - 1) :
         /\ OrZero(statTrades[i].exitTime) > OrZero(statTrades[i + 1].exitTime)
         /\ calculateStats(Swapped(statTrades, i), baseCurrency,
                           currentExchangeRates).totalPnl # stats.totalPnl
         /\ \A f \in OrderFreeFields :
              calculateStats(Swapped(statTrades, i), baseCurrency,
                             currentExchangeRates)[f] = stats[f]
    /\ stats.consecutiveLosses >= 1
    /\ RPos(stats.maxDrawdown)

(* mergeTradeData step by step: the history of a matched position *)

\* the stop-loss and the take-profit of a trade or of a pair of a history
Levels(x) == <<x.stopLoss, x.takeProfit>>

(* C29: when a position is matched to a balance event, the pairs of its
   history up to the exit time are not empty (the pair of the entry is one of
   them, the entry being before the exit), the trade has the levels of one of
   them, and the levels of a modification after the exit are not on it. *)
C29_HistoryReachesBack ==
    [][\A b \in Range(scanBalance) :
         (MatchStepOf(b) /\ matchedPosition' # NoPosition) =>
            LET pos == matchedPosition'
                upTo == HistoryUpTo(pos, b)
            IN  /\ pos.slTpHistory[1].time = pos.entryTime
                /\ getTime(pos.entryTime, timeZone) < getTime(b.time, timeZone)
                /\ 1 \in upTo
                /\ \E i \in upTo : Levels(PushedTrade) = Levels(pos.slTpHistory[i])
                /\ \A i \in DOMAIN pos.slTpHistory :
                     i \notin upTo => Levels(PushedTrade) # Levels(pos.slTpHistory[i])]_vars

\* a position modified after the exit only: the trade has the levels of the
\* entry call, the position holds those of the modification
C29_Witness ==
    /\ mergePc = "balance"
    /\ cursor = 2
    /\ scanBalance[1].time = 20000
    /\ matchedPosition # NoPosition
    /\ Len(matchedPosition.slTpHistory) = 2
    /\ matchedPosition.slTpHistory[2].time = 30000
    /\ Levels(matchedPosition) = Levels(matchedPosition.slTpHistory[2])
    /\ Levels(mergeTrades[Len(mergeTrades)]) = Levels(matchedPosition.slTpHistory[1])
    /\ Levels(mergeTrades[Len(mergeTrades)]) # Levels(matchedPosition)

-----------------------------------------------------------------------------
(* Import screen with reads in flight.

   handleBalanceFile and handleJournalFile are taken in two steps: the call
   of the handler, which starts a FileReader, and the reader's onload.  The
   handler is the one of the latest render (useCallback on the entries of
   the other file), so its onload sees the entries of the other file as they
   were when the file was chosen.  Readers in flight finish in any order. *)

notReadVars ==
    <<convVars, statVars, rateVars, journalLines, balanceLines, importPc, consumed,
      mt5Vars, mergeVars, journalVars>>

\* handleBalanceFile(file) up to reader.readAsText(file)
SelectBalanceFile(file) ==
    /\ reads < MaxReads
    /\ pendingReads' = pendingReads \cup
            {[handler |-> "balance", name |-> file.name, seen |-> journalEntries]}
    /\ reads' = reads + 1
    /\ UNCHANGED <<balanceFile, journalFile, mt5File, balanceEntries, journalEntries,
                   error, lastRead, parsedTrades, timeZone, notReadVars>>

\* the onload of a reader of handleBalanceFile
BalanceFileLoaded(read) ==
    /\ read \in pendingReads
    /\ read.handler = "balance"
    /\ LET entries == parseBalanceHistoryCSV(BalanceLinesOf(read.name))
       IN  IF Len(entries) = 0
           THEN /\ error' = NoBalanceTrades
                /\ UNCHANGED <<balanceEntries, balanceFile, parsedTrades>>
           ELSE /\ balanceEntries' = entries
                /\ balanceFile' = read.name
                /\ error' = ""
                /\ parsedTrades' = tradesOfBalanceFile(entries, read.seen, timeZone)
    /\ pendingReads' = pendingReads \ {read}
    /\ lastRead' = [handler |-> "balance", name |-> read.name]
    /\ UNCHANGED <<journalFile, mt5File, journalEntries, reads, timeZone, notReadVars>>

\* handleJournalFile(file) up to reader.readAsText(file)
SelectJournalFile(file) ==
    /\ reads < MaxReads
    /\ pendingReads' = pendingReads \cup
            {[handler |-> "journal", name |-> file.name, seen |-> balanceEntries]}
    /\ reads' = reads + 1
    /\ UNCHANGED <<balanceFile, journalFile, mt5File, balanceEntries, journalEntries,
                   error, lastRead, parsedTrades, timeZone, notReadVars>>

\* the onload of a reader of handleJournalFile
JournalFileLoaded(read) ==
    /\ read \in pendingReads
    /\ read.handler = "journal"
    /\ LET entries == parseOrderLogsCSV(JournalLinesOf(read.name))
       IN  IF Len(entries) = 0
           THEN /\ error' = NoJournalEntries
                /\ UNCHANGED <<journalEntries, journalFile, parsedTrades>>
           ELSE /\ journalEntries' = entries
                /\ journalFile' = read.name
                /\ error' = ""
                /\ IF Len(read.seen) > 0
                   THEN parsedTrades' = mergeTradeData(read.seen, entries, timeZone)
                   ELSE UNCHANGED parsedTrades
    /\ pendingReads' = pendingReads \ {read}
    /\ lastRead' = [handler |-> "journal", name |-> read.name]
    /\ UNCHANGED <<balanceFile, mt5File, balanceEntries, reads, timeZone, notReadVars>>

ReadsNext ==
    \/ \E file \in BalanceFileInputs : SelectBalanceFile(file)
    \/ \E read \in pendingReads : BalanceFileLoaded(read)
    \/ \E file \in JournalFileInputs : SelectJournalFile(file)
    \/ \E read \in pendingReads : JournalFileLoaded(read)

SpecReads == ScreenInit /\ [][ReadsNext]_vars

(* C28: with no read in flight and entries of both files on the screen, the
   trades shown are the merge of these entries. *)
C28_PreviewIsTheMerge ==
    (pendingReads = {} /\ balanceEntries # <<>> /\ journalEntries # <<>>) =>
        parsedTrades = mergeTradeData(balanceEntries, journalEntries, timeZone)

=============================================================================
